---- MODULE Spec2Model ----
\* Email autoresponder: the auto-response decision engine (src/src/confidence.ts),
\* the per-thread state store (src/state/threadState.ts) and the webhook
\* orchestrator (src/handlers/webhookHandler.ts, handleReachinboxWebhook).
\* Scores are integer hundredths (0.85 is 85).
EXTENDS Integers, Sequences, FiniteSets, TLC

\* ------------------------------------------------------------------------
\* Bounds of the model
\* ------------------------------------------------------------------------
MaxSignals == 2
MaxAutoReplies == 2
MaxDeliveries == 3
MaxInFlight == 2

\* ------------------------------------------------------------------------
\* confidence.ts: types and tables
\* ------------------------------------------------------------------------
Signal ==
  {"explicit_yes", "send_it", "send_agreement", "asks_for_agreement", "asks_fees",
   "interested", "has_question", "multi_topic", "wants_resume_first",
   "wants_call_first", "skeptical", "role_ambiguous", "multiple_roles",
   "wrong_person", "out_of_office", "auto_reply_blank", "unsubscribe",
   "not_interested", "done_all_set", "already_signed"}

\* The detectors of RX, plus the literal "?" test of normalizeSignals.
Detector ==
  {"unsubscribe", "ooo", "question", "sendAgreement", "asksForAgreement", "sendIt",
   "explicitYes", "explicitNo", "asksFees", "wantsResumeFirst", "wantsCallFirst",
   "skeptical", "doneAllSet", "wrongPerson", "alreadySigned"}

\* A template id that the classification does not carry.
NoTemplate == "<undefined>"

\* A message id that the caller does not pass.
NoMessageId == "<undefined>"

\* A confidenceThreshold that the caller does not pass.
NoThreshold == -1

AUTO_INTENT_WHITELIST ==
  {"YES_SEND", "ASK_AGREEMENT", "ASK_FEES_ONLY", "INTERESTED", "NOT_INTERESTED",
   "NOT_HIRING", "NO_JOB_POST", "ROLE_UNCLEAR", "ASKING_WHICH_ROLE",
   "ROLE_CONFIRMED_FOLLOWUP", "FEES_QUESTION", "ASK_WEBSITE",
   "ROLE_CLARIFICATION_MULTI", "GEO_CONCERN", "LINK_TO_APPLY", "ASK_COMPANY",
   "ASK_EXPERIENCE", "ASK_SALARY", "ASK_SOURCE", "FORWARD_TO_TEAM", "CHECK_WITH_HR",
   "CONFUSED_MESSAGE", "THANK_YOU", "SINGLE_QUESTION_MARK", "HYBRID_WORK",
   "PDF_FORMAT", "WILL_FORWARD"}

DEPTH_WHITELIST ==
  {"YES_SEND", "ASK_AGREEMENT", "NOT_INTERESTED", "UNSUBSCRIBE", "DONE_ALL_SET"}

BASE ==
  [YES_SEND |-> 85, ASK_AGREEMENT |-> 85, ASK_FEES_ONLY |-> 65, INTERESTED |-> 60,
   NOT_INTERESTED |-> 75, NOT_HIRING |-> 65, NO_JOB_POST |-> 60, ROLE_UNCLEAR |-> 55,
   ASKING_WHICH_ROLE |-> 60, ROLE_CONFIRMED_FOLLOWUP |-> 70, FEES_QUESTION |-> 65,
   ASK_WEBSITE |-> 60, ROLE_CLARIFICATION_MULTI |-> 55, GEO_CONCERN |-> 55,
   LINK_TO_APPLY |-> 50, ASK_COMPANY |-> 60, ASK_EXPERIENCE |-> 60, ASK_SALARY |-> 60,
   ASK_SOURCE |-> 60, FORWARD_TO_TEAM |-> 60, CHECK_WITH_HR |-> 60,
   CONFUSED_MESSAGE |-> 60, THANK_YOU |-> 60, SINGLE_QUESTION_MARK |-> 60,
   HYBRID_WORK |-> 60, PDF_FORMAT |-> 60, WILL_FORWARD |-> 60]

\* BASE is a plain object: a key it does not own is still found when
\* Object.prototype has it, and the value found there is not a number.
ObjectPrototypeKeys ==
  {"constructor", "toString", "valueOf", "hasOwnProperty", "__proto__"}

ADD ==
  [send_agreement |-> 50, asks_for_agreement |-> 50, send_it |-> 30,
   explicit_yes |-> 30, interested |-> 20, asks_fees |-> 25, short_msg |-> 5,
   first_auto_reply |-> 5, no_question_mark |-> 5]

SUB ==
  [has_question |-> 15, multi_topic |-> 25, wants_resume_first |-> 60,
   wants_call_first |-> 60, skeptical |-> 50, role_ambiguous |-> 25,
   multiple_roles |-> 40, wrong_person |-> 70, auto_reply_blank |-> 50,
   already_signed |-> 80]

DefaultThreshold == 70
AgreementThreshold == 60
DepthLimit == 2
BlankLength == 2
ShortMsgLength == 200

\* The confidence of a score that is not a number (NaN, or a string built by
\* adding a number to a function): every comparison with it is false.
NotANumber == -1000

clamp01(n) == IF n < 0 THEN 0 ELSE IF n > 100 THEN 100 ELSE n

has(sigs, s) == s \in sigs

\* strongIntents without the skepticism detector.
strongIntents_FourDetectors(hits) ==
  Cardinality(hits \cap {"sendAgreement", "asksFees", "wantsResumeFirst",
                         "wantsCallFirst"})

\* A body is the trimmed text seen through what the code asks of it: its
\* length and the set of detectors that match it.
strongIntents(hits) ==
  Cardinality(hits \cap {"sendAgreement", "asksFees", "wantsResumeFirst",
                         "wantsCallFirst", "skeptical"})

regexSignals(body) ==
  (IF "unsubscribe" \in body.hits THEN {"unsubscribe"} ELSE {})
  \cup (IF "ooo" \in body.hits THEN {"out_of_office"} ELSE {})
  \cup (IF body.len < BlankLength THEN {"auto_reply_blank"} ELSE {})
  \cup (IF "question" \in body.hits THEN {"has_question"} ELSE {})
  \cup (IF "sendAgreement" \in body.hits THEN {"send_agreement"} ELSE {})
  \cup (IF "asksForAgreement" \in body.hits THEN {"asks_for_agreement"} ELSE {})
  \cup (IF "sendIt" \in body.hits THEN {"send_it"} ELSE {})
  \cup (IF "explicitYes" \in body.hits THEN {"explicit_yes"} ELSE {})
  \cup (IF "explicitNo" \in body.hits THEN {"not_interested"} ELSE {})
  \cup (IF "asksFees" \in body.hits THEN {"asks_fees"} ELSE {})
  \cup (IF "wantsResumeFirst" \in body.hits THEN {"wants_resume_first"} ELSE {})
  \cup (IF "wantsCallFirst" \in body.hits THEN {"wants_call_first"} ELSE {})
  \cup (IF "skeptical" \in body.hits THEN {"skeptical"} ELSE {})
  \cup (IF "doneAllSet" \in body.hits THEN {"done_all_set"} ELSE {})
  \cup (IF "wrongPerson" \in body.hits THEN {"wrong_person"} ELSE {})
  \cup (IF "alreadySigned" \in body.hits THEN {"already_signed"} ELSE {})
  \cup (IF strongIntents(body.hits) >= 2 THEN {"multi_topic"} ELSE {})

\* normalizeSignals with the blank test written as "the text is empty".
normalizeSignals_BlankOnlyWhenEmpty(body, modelSignals) ==
  modelSignals
  \cup (IF body.len = 0 THEN regexSignals(body)
        ELSE regexSignals(body) \ {"auto_reply_blank"})

normalizeSignals(body, modelSignals) == modelSignals \cup regexSignals(body)

\* ------------------------------------------------------------------------
\* confidence.ts: decideAutoRespond
\* ------------------------------------------------------------------------
Opt(cond, reason) == IF cond THEN <<reason>> ELSE <<>>

isAgreementRequest(template_id, sigs) ==
  \/ template_id = "YES_SEND"
  \/ template_id = "ASK_AGREEMENT"
  \/ has(sigs, "send_agreement")
  \/ has(sigs, "asks_for_agreement")

decisionThreshold(template_id, sigs, confidenceThreshold) ==
  IF isAgreementRequest(template_id, sigs) THEN AgreementThreshold
  ELSE IF confidenceThreshold = NoThreshold THEN DefaultThreshold
  ELSE confidenceThreshold

hardStopDecision(reason, sigs, effective) ==
  [okToAutoRespond |-> FALSE, confidence |-> 100, blockingReasons |-> <<reason>>,
   normalizedSignals |-> sigs, effectiveTemplateId |-> effective]

\* softBlockers with the depth limit tested as "more than" instead of "at
\* least".
softBlockers_DepthAfterLimit(template_id, sigs, threadState, messageId) ==
  LET explicitlyAskingForAgreement ==
        \/ has(sigs, "send_agreement")
        \/ has(sigs, "asks_for_agreement")
        \/ template_id = "YES_SEND"
        \/ template_id = "ASK_AGREEMENT"
  IN  Opt(threadState.manualOwner, "manualOwner")
      \o Opt(threadState.autoRepliesSent > DepthLimit
               /\ template_id \notin DEPTH_WHITELIST, "depthLimit")
      \o Opt(messageId # NoMessageId
               /\ messageId \in threadState.processedMessageIds, "duplicateMessageId")
      \o Opt(threadState.lastTemplateSent # NoTemplate
               /\ threadState.lastTemplateSent = template_id, "duplicateTemplate")
      \o Opt(template_id \notin AUTO_INTENT_WHITELIST, "templateNotAutoEligible")
      \o Opt(has(sigs, "wants_resume_first") /\ ~explicitlyAskingForAgreement,
             "wants_resume_first")
      \o Opt(has(sigs, "wants_call_first") /\ ~explicitlyAskingForAgreement,
             "wants_call_first")
      \o Opt(has(sigs, "skeptical") /\ ~explicitlyAskingForAgreement, "skeptical")
      \o Opt(has(sigs, "wrong_person"), "wrong_person")

\* softBlockers with the wrong-person reason under the same override as the
\* three softer intents.
softBlockers_WrongPersonOverridden(template_id, sigs, threadState, messageId) ==
  LET explicitlyAskingForAgreement ==
        \/ has(sigs, "send_agreement")
        \/ has(sigs, "asks_for_agreement")
        \/ template_id = "YES_SEND"
        \/ template_id = "ASK_AGREEMENT"
  IN  Opt(threadState.manualOwner, "manualOwner")
      \o Opt(threadState.autoRepliesSent >= DepthLimit
               /\ template_id \notin DEPTH_WHITELIST, "depthLimit")
      \o Opt(messageId # NoMessageId
               /\ messageId \in threadState.processedMessageIds, "duplicateMessageId")
      \o Opt(threadState.lastTemplateSent # NoTemplate
               /\ threadState.lastTemplateSent = template_id, "duplicateTemplate")
      \o Opt(template_id \notin AUTO_INTENT_WHITELIST, "templateNotAutoEligible")
      \o Opt(has(sigs, "wants_resume_first") /\ ~explicitlyAskingForAgreement,
             "wants_resume_first")
      \o Opt(has(sigs, "wants_call_first") /\ ~explicitlyAskingForAgreement,
             "wants_call_first")
      \o Opt(has(sigs, "skeptical") /\ ~explicitlyAskingForAgreement, "skeptical")
      \o Opt(has(sigs, "wrong_person") /\ ~explicitlyAskingForAgreement,
             "wrong_person")

\* The reasons pushed before the score is computed, in the order of the code.
softBlockers(template_id, sigs, threadState, messageId) ==
  LET explicitlyAskingForAgreement ==
        \/ has(sigs, "send_agreement")
        \/ has(sigs, "asks_for_agreement")
        \/ template_id = "YES_SEND"
        \/ template_id = "ASK_AGREEMENT"
  IN  Opt(threadState.manualOwner, "manualOwner")
      \o Opt(threadState.autoRepliesSent >= DepthLimit
               /\ template_id \notin DEPTH_WHITELIST, "depthLimit")
      \o Opt(messageId # NoMessageId
               /\ messageId \in threadState.processedMessageIds, "duplicateMessageId")
      \o Opt(threadState.lastTemplateSent # NoTemplate
               /\ threadState.lastTemplateSent = template_id, "duplicateTemplate")
      \o Opt(template_id \notin AUTO_INTENT_WHITELIST, "templateNotAutoEligible")
      \o Opt(has(sigs, "wants_resume_first") /\ ~explicitlyAskingForAgreement,
             "wants_resume_first")
      \o Opt(has(sigs, "wants_call_first") /\ ~explicitlyAskingForAgreement,
             "wants_call_first")
      \o Opt(has(sigs, "skeptical") /\ ~explicitlyAskingForAgreement, "skeptical")
      \o Opt(has(sigs, "wrong_person"), "wrong_person")

\* The template-specific must-have rules, pushed after the score is computed.
\* templateRules without the rule of ASK_FEES_ONLY.
templateRules_NoFeesRule(template_id, sigs) ==
  Opt(template_id = "YES_SEND"
        /\ ~(has(sigs, "send_agreement") \/ has(sigs, "asks_for_agreement")
             \/ has(sigs, "send_it") \/ has(sigs, "explicit_yes")),
      "YES_SEND requires evidence")
  \o Opt(template_id = "ASK_AGREEMENT"
           /\ ~(has(sigs, "asks_for_agreement") \/ has(sigs, "send_agreement")
                \/ has(sigs, "send_it")),
         "ASK_AGREEMENT requires evidence")
  \o Opt(template_id = "INTERESTED" /\ has(sigs, "multi_topic"),
         "INTERESTED blocked: multi_topic")

templateRules(template_id, sigs) ==
  Opt(template_id = "YES_SEND"
        /\ ~(has(sigs, "send_agreement") \/ has(sigs, "asks_for_agreement")
             \/ has(sigs, "send_it") \/ has(sigs, "explicit_yes")),
      "YES_SEND requires evidence")
  \o Opt(template_id = "ASK_AGREEMENT"
           /\ ~(has(sigs, "asks_for_agreement") \/ has(sigs, "send_agreement")
                \/ has(sigs, "send_it")),
         "ASK_AGREEMENT requires evidence")
  \o Opt(template_id = "ASK_FEES_ONLY" /\ ~has(sigs, "asks_fees"),
         "ASK_FEES_ONLY requires asks_fees")
  \o Opt(template_id = "INTERESTED" /\ has(sigs, "multi_topic"),
         "INTERESTED blocked: multi_topic")

baseScore(template_id) ==
  IF template_id \in DOMAIN BASE THEN BASE[template_id]
  ELSE IF template_id \in ObjectPrototypeKeys THEN NotANumber
  ELSE 0

Plus(cond, n) == IF cond THEN n ELSE 0

rawScore(template_id, sigs, bodyLen, autoRepliesSent) ==
  baseScore(template_id)
  + Plus(has(sigs, "send_agreement"), ADD.send_agreement)
  + Plus(has(sigs, "asks_for_agreement"), ADD.asks_for_agreement)
  + Plus(has(sigs, "send_it"), ADD.send_it)
  + Plus(has(sigs, "explicit_yes"), ADD.explicit_yes)
  + Plus(has(sigs, "interested"), ADD.interested)
  + Plus(has(sigs, "asks_fees") /\ template_id = "ASK_FEES_ONLY", ADD.asks_fees)
  + Plus(bodyLen > 0 /\ bodyLen < ShortMsgLength, ADD.short_msg)
  + Plus(autoRepliesSent = 0, ADD.first_auto_reply)
  + Plus(~has(sigs, "has_question"), ADD.no_question_mark)
  - Plus(has(sigs, "has_question"), SUB.has_question)
  - Plus(has(sigs, "multi_topic"), SUB.multi_topic)
  - Plus(has(sigs, "wants_resume_first"), SUB.wants_resume_first)
  - Plus(has(sigs, "wants_call_first"), SUB.wants_call_first)
  - Plus(has(sigs, "skeptical"), SUB.skeptical)
  - Plus(has(sigs, "role_ambiguous"), SUB.role_ambiguous)
  - Plus(has(sigs, "multiple_roles"), SUB.multiple_roles)
  - Plus(has(sigs, "wrong_person"), SUB.wrong_person)
  - Plus(has(sigs, "auto_reply_blank"), SUB.auto_reply_blank)

score(template_id, sigs, bodyLen, autoRepliesSent) ==
  IF baseScore(template_id) = NotANumber THEN NotANumber
  ELSE clamp01(rawScore(template_id, sigs, bodyLen, autoRepliesSent))

\* scoredDecision with a verdict that looks at the score alone.
scoredDecision_ScoreOnly(template_id, sigs, bodyLen, threadState, messageId, threshold) ==
  LET blocking == softBlockers(template_id, sigs, threadState, messageId)
                  \o templateRules(template_id, sigs)
      sc == score(template_id, sigs, bodyLen, threadState.autoRepliesSent)
      okToAuto == sc # NotANumber /\ sc >= threshold
  IN  [okToAutoRespond |-> okToAuto, confidence |-> sc,
       blockingReasons |-> IF okToAuto THEN <<>> ELSE blocking,
       normalizedSignals |-> sigs, effectiveTemplateId |-> template_id]

scoredDecision(template_id, sigs, bodyLen, threadState, messageId, threshold) ==
  LET blocking == softBlockers(template_id, sigs, threadState, messageId)
                  \o templateRules(template_id, sigs)
      sc == score(template_id, sigs, bodyLen, threadState.autoRepliesSent)
      okToAuto == Len(blocking) = 0 /\ sc # NotANumber /\ sc >= threshold
  IN  [okToAutoRespond |-> okToAuto, confidence |-> sc,
       blockingReasons |-> IF okToAuto THEN <<>> ELSE blocking,
       normalizedSignals |-> sigs, effectiveTemplateId |-> template_id]

\* decideAutoRespond without the agreement-sent hard stop.
decideAutoRespond_NoAgreementStop(input) ==
  LET template_id == input.template_id
      sigs == normalizeSignals(input.body, input.modelSignals)
      threshold == decisionThreshold(template_id, sigs, input.confidenceThreshold)
  IN  IF has(sigs, "unsubscribe") \/ template_id = "UNSUBSCRIBE"
        THEN hardStopDecision("UNSUBSCRIBE", sigs, "UNSUBSCRIBE")
      ELSE IF has(sigs, "out_of_office") \/ template_id = "OUT_OF_OFFICE"
        THEN hardStopDecision("OUT_OF_OFFICE", sigs, "OUT_OF_OFFICE")
      ELSE IF has(sigs, "auto_reply_blank") \/ template_id = "AUTO_REPLY_BLANK"
        THEN hardStopDecision("AUTO_REPLY_BLANK", sigs, "AUTO_REPLY_BLANK")
      ELSE IF has(sigs, "done_all_set") \/ template_id = "DONE_ALL_SET"
        THEN hardStopDecision("DONE_ALL_SET", sigs, "DONE_ALL_SET")
      ELSE scoredDecision(template_id, sigs, input.body.len, input.threadState,
                          input.messageId, threshold)

\* decideAutoRespond with the agreement-sent hard stop tested first.
decideAutoRespond_AgreementStopFirst(input) ==
  LET template_id == input.template_id
      sigs == normalizeSignals(input.body, input.modelSignals)
      threshold == decisionThreshold(template_id, sigs, input.confidenceThreshold)
  IN  IF input.threadState.agreementSent
        THEN hardStopDecision("agreementSent", sigs, template_id)
      ELSE IF has(sigs, "unsubscribe") \/ template_id = "UNSUBSCRIBE"
        THEN hardStopDecision("UNSUBSCRIBE", sigs, "UNSUBSCRIBE")
      ELSE IF has(sigs, "out_of_office") \/ template_id = "OUT_OF_OFFICE"
        THEN hardStopDecision("OUT_OF_OFFICE", sigs, "OUT_OF_OFFICE")
      ELSE IF has(sigs, "auto_reply_blank") \/ template_id = "AUTO_REPLY_BLANK"
        THEN hardStopDecision("AUTO_REPLY_BLANK", sigs, "AUTO_REPLY_BLANK")
      ELSE IF has(sigs, "done_all_set") \/ template_id = "DONE_ALL_SET"
        THEN hardStopDecision("DONE_ALL_SET", sigs, "DONE_ALL_SET")
      ELSE scoredDecision(template_id, sigs, input.body.len, input.threadState,
                          input.messageId, threshold)

\* input: [template_id, modelSignals, body, threadState, messageId,
\*         confidenceThreshold]
decideAutoRespond(input) ==
  LET template_id == input.template_id
      sigs == normalizeSignals(input.body, input.modelSignals)
      threshold == decisionThreshold(template_id, sigs, input.confidenceThreshold)
  IN  IF has(sigs, "unsubscribe") \/ template_id = "UNSUBSCRIBE"
        THEN hardStopDecision("UNSUBSCRIBE", sigs, "UNSUBSCRIBE")
      ELSE IF has(sigs, "out_of_office") \/ template_id = "OUT_OF_OFFICE"
        THEN hardStopDecision("OUT_OF_OFFICE", sigs, "OUT_OF_OFFICE")
      ELSE IF has(sigs, "auto_reply_blank") \/ template_id = "AUTO_REPLY_BLANK"
        THEN hardStopDecision("AUTO_REPLY_BLANK", sigs, "AUTO_REPLY_BLANK")
      ELSE IF has(sigs, "done_all_set") \/ template_id = "DONE_ALL_SET"
        THEN hardStopDecision("DONE_ALL_SET", sigs, "DONE_ALL_SET")
      ELSE IF input.threadState.agreementSent
        THEN hardStopDecision("agreementSent", sigs, template_id)
      ELSE scoredDecision(template_id, sigs, input.body.len, input.threadState,
                          input.messageId, threshold)

\* ------------------------------------------------------------------------
\* State
\* ------------------------------------------------------------------------
VARIABLES
  call,       \* the thread state, template and caller arguments of a decision
  decision,   \* the last decision returned by decideAutoRespond, with its input
  store,      \* threadState.ts: the in-memory maps
  handlers,   \* the webhook handlers in flight, each suspended at an await
  history,    \* what has been sent so far (not program state)
  lastDone    \* the delivery whose handler returned last (not program state)

vars == <<call, decision, store, handlers, history, lastDone>>

NoDecision == [made |-> FALSE]

\* ------------------------------------------------------------------------
\* The inputs of a decision
\* ------------------------------------------------------------------------
\* One template of every kind the code tells apart: the agreement templates,
\* templates with a must-have rule, catalog templates inside and outside the
\* depth whitelist, the hard-stop templates, a known template outside the
\* catalog, a missing one, and a name Object.prototype owns.
DecideTemplates ==
  {"YES_SEND", "ASK_AGREEMENT", "ASK_FEES_ONLY", "INTERESTED", "NOT_INTERESTED",
   "ROLE_UNCLEAR", "UNSUBSCRIBE", "OUT_OF_OFFICE", "AUTO_REPLY_BLANK",
   "DONE_ALL_SET", "WRONG_PERSON_NO_CONTACT", NoTemplate, "constructor"}

BodyLengths == {0, 1, 40, 300}

\* What the patterns of RX allow: an empty text matches nothing, a text of one
\* character is matched by "?" or by "%" (asksFees) at most, and a text that
\* matches asksForAgreement matches sendAgreement.
BodyFeasible(body) ==
  /\ body.len = 0 => body.hits = {}
  /\ body.len = 1 => (body.hits \subseteq {"question"} \/ body.hits \subseteq {"asksFees"})
  /\ "asksForAgreement" \in body.hits => "sendAgreement" \in body.hits

\* The subsets of S with at most k elements.
RECURSIVE UpTo(_, _)
UpTo(S, k) ==
  IF k = 0 THEN {{}}
  ELSE LET smaller == UpTo(S, k - 1)
       IN  smaller \cup {s \cup {x} : s \in smaller, x \in S}

\* The signals the classifier attaches on its own: the ones no pattern of RX
\* derives, and one that a pattern derives too.
ModelSignalPool == {"interested", "role_ambiguous", "out_of_office"}

\* A message carries at most MaxSignals signals in all, from the classifier
\* and from the patterns together.
Messages ==
  {msg \in [modelSignals : UpTo(ModelSignalPool, MaxSignals),
            body : {b \in [len : BodyLengths, hits : UpTo(Detector, MaxSignals)] :
                      BodyFeasible(b)}] :
     Cardinality(msg.modelSignals) + Cardinality(msg.body.hits) <= MaxSignals}

LastTemplates == {NoTemplate, "INTERESTED"}

Thresholds == {NoThreshold, 50, 90}

Context(manualOwner, lastTemplateSent, processedMessageIds, messageId) ==
  [manualOwner |-> manualOwner, lastTemplateSent |-> lastTemplateSent,
   processedMessageIds |-> processedMessageIds, messageId |-> messageId]

\* What the thread-state blockers read: nothing set; a manual owner; a last
\* template; the message already processed; a processed set with no message
\* id to look up; all of them.
Contexts ==
  {Context(FALSE, NoTemplate, {}, "m1"),
   Context(TRUE, NoTemplate, {}, "m1"),
   Context(FALSE, NoTemplate, {"m1"}, "m1"),
   Context(FALSE, NoTemplate, {"m1"}, NoMessageId)}
  \cup {Context(FALSE, t, {}, "m1") : t \in LastTemplates}
  \cup {Context(TRUE, t, {"m1"}, "m1") : t \in LastTemplates \ {NoTemplate}}

Calls ==
  {[template_id |-> t,
    threadState |-> [autoRepliesSent |-> n, agreementSent |-> a,
                     manualOwner |-> c.manualOwner,
                     lastTemplateSent |-> c.lastTemplateSent,
                     processedMessageIds |-> c.processedMessageIds],
    messageId |-> c.messageId,
    confidenceThreshold |-> th] :
     t \in DecideTemplates, n \in 0..MaxAutoReplies, a \in BOOLEAN,
     c \in Contexts, th \in Thresholds}

\* ------------------------------------------------------------------------
\* threadState.ts: the state store
\* ------------------------------------------------------------------------
ThreadKeys == {"t1"}
MessageIds == {"m1", "m2", "t1"}

NoEmail == "<undefined>"
NoRole == "<undefined>"

\* String.toLowerCase().trim() on the addresses of the model.
LowerTrim(email) ==
  CASE email = "a@x.com" -> "a@x.com"
    [] email = " A@X.com " -> "a@x.com"
    [] email = "b@x.com" -> "b@x.com"
    [] OTHER -> email

StoreInit ==
  [processedMessages |-> {},
   unsubscribedLeads |-> {},
   autoRepliesSent |-> [t \in ThreadKeys |-> 0],
   agreementSent |-> [t \in ThreadKeys |-> FALSE],
   manualOwner |-> [t \in ThreadKeys |-> FALSE],
   lastTemplateIds |-> [t \in ThreadKeys |-> NoTemplate],
   lockedRoles |-> [t \in ThreadKeys |-> <<>>],
   lastFrom |-> [t \in ThreadKeys |-> NoEmail]]

isProcessed(st, messageId) == messageId \in st.processedMessages

markProcessed(st, messageId) ==
  [st EXCEPT !.processedMessages = @ \cup {messageId}]

getLastTemplateId(st, threadId) == st.lastTemplateIds[threadId]

setLastTemplateId(st, threadId, templateId) ==
  [st EXCEPT !.lastTemplateIds[threadId] = templateId]

markAsUnsubscribed(st, leadEmail) ==
  IF leadEmail # NoEmail
    THEN [st EXCEPT !.unsubscribedLeads = @ \cup {LowerTrim(leadEmail)}]
    ELSE st

\* isUnsubscribed that looks the address up as it was given.
isUnsubscribed_ExactMatch(st, leadEmail) ==
  IF leadEmail = NoEmail THEN FALSE
  ELSE leadEmail \in st.unsubscribedLeads

isUnsubscribed(st, leadEmail) ==
  IF leadEmail = NoEmail THEN FALSE
  ELSE LowerTrim(leadEmail) \in st.unsubscribedLeads

getAutoRepliesSent(st, threadId) == st.autoRepliesSent[threadId]

incrementAutoRepliesSent(st, threadId) ==
  [st EXCEPT !.autoRepliesSent[threadId] = @ + 1]

isAgreementSent(st, threadId) == st.agreementSent[threadId]

markAgreementSent(st, threadId) == [st EXCEPT !.agreementSent[threadId] = TRUE]

isManualOwner(st, threadId) == st.manualOwner[threadId]

markAsManualOwner(st, threadId) == [st EXCEPT !.manualOwner[threadId] = TRUE]

resetManualOwner(st, threadId) == [st EXCEPT !.manualOwner[threadId] = FALSE]

getLockedRoles(st, threadId) == st.lockedRoles[threadId]

\* String.trim() on the role names of the model.
Trim(role) ==
  CASE role = "nurse " -> "nurse"
    [] role = " " -> ""
    [] OTHER -> role

SeqHas(seq, x) == \E k \in 1..Len(seq) : seq[k] = x

\* addLockedRole that replaces the list by the new role.
addLockedRole_Replaces(st, threadId, role) ==
  IF role # NoRole /\ role # "" /\ Trim(role) # ""
    THEN IF ~SeqHas(getLockedRoles(st, threadId), Trim(role))
           THEN [st EXCEPT !.lockedRoles[threadId] = <<Trim(role)>>]
           ELSE st
    ELSE st

addLockedRole(st, threadId, role) ==
  IF role # NoRole /\ role # "" /\ Trim(role) # ""
    THEN IF ~SeqHas(getLockedRoles(st, threadId), Trim(role))
           THEN [st EXCEPT !.lockedRoles[threadId] = Append(@, Trim(role))]
           ELSE st
    ELSE st

getLastFrom(st, threadId) == st.lastFrom[threadId]

setLastFrom(st, threadId, email) ==
  IF email # NoEmail /\ LowerTrim(email) # ""
    THEN [st EXCEPT !.lastFrom[threadId] = LowerTrim(email)]
    ELSE st

\* ------------------------------------------------------------------------
\* scripts.ts
\* ------------------------------------------------------------------------
\* The template ids TPL has a script for.
TPL ==
  {"INTERESTED", "YES_SEND", "NO_JOB_POST", "NOT_HIRING", "NOT_INTERESTED_GENERAL",
   "UNSUBSCRIBE", "ASK_AGREEMENT", "TOO_EXPENSIVE", "ROLE_UNCLEAR",
   "ALREADY_HAVE_AGENCY", "NOT_HIRING_CONTACT", "WRONG_PERSON_WITH_CONTACT",
   "WRONG_PERSON_NO_CONTACT", "LINK_TO_APPLY", "FEES_QUESTION", "PERCENT_TOO_HIGH",
   "SKEPTICAL", "ROLE_CLARIFICATION_MULTI", "GEO_CONCERN", "ASKING_WHICH_ROLE",
   "ASK_FEES_ONLY", "ASK_WEBSITE", "DONE_ALL_SET", "ROLE_CONFIRMED_FOLLOWUP",
   "ASK_COMPANY", "ASK_EXPERIENCE", "ASK_SALARY", "ASK_SOURCE", "FORWARD_TO_TEAM",
   "CHECK_WITH_HR", "CONFUSED_MESSAGE", "THANK_YOU", "SINGLE_QUESTION_MARK",
   "HYBRID_WORK", "PDF_FORMAT", "WILL_FORWARD"}

AUTO_SEND_TEMPLATES == {"YES_SEND", "ASK_AGREEMENT"}

requiresESignature(templateId) == templateId \in AUTO_SEND_TEMPLATES

\* ------------------------------------------------------------------------
\* webhookHandler.ts: handleReachinboxWebhook, one operator per stretch of
\* code between two awaits
\* ------------------------------------------------------------------------
Slots == 1..MaxInFlight

NoThread == "<undefined>"

HandlerThreshold == 90
AckLength == 50

Idle == [pc |-> "idle"]

NoDone == [status |-> 0]

NoBody == [len |-> 0, hits |-> {}, ack |-> FALSE, mentionsSender |-> FALSE]

HistoryInit ==
  [arrived |-> 0,
   responses |-> 0,
   replies |-> [t \in ThreadKeys |-> 0],
   lastReply |-> [t \in ThreadKeys |-> NoTemplate],
   optedOut |-> {},
   ownerResets |-> [t \in ThreadKeys |-> 0],
   agreements |-> [t \in ThreadKeys |-> 0],
   incrementsBy |-> [m \in MessageIds |-> 0],
   agreementsBy |-> [m \in MessageIds |-> 0]]

\* What the JSON body of the response says about the sends: the success
\* response reports reply_sent and agreement_sent, the acknowledgment and
\* already-signed responses report agreement_sent = false, the others
\* neither.
ResponseBody(l, exit) ==
  IF exit = "success"
    THEN [reply_sent |-> TRUE, agreement_sent |-> requiresESignature(l.template_id)]
    ELSE [reply_sent |-> FALSE, agreement_sent |-> FALSE]

\* The handler returns: res.status(status) has been called at the return site
\* named exit.
Return(st, hi, l, status, exit) ==
  [store |-> st, history |-> [hi EXCEPT !.responses = @ + 1], h |-> Idle,
   done |-> [message_id |-> l.message_id, thread |-> l.thread,
             lead_email |-> l.lead_email, status |-> status,
             json |-> ResponseBody(l, exit),
             template_id |-> l.template_id,
             okToAutoRespond |-> l.okToAutoRespond,
             exit |-> exit, replySent |-> l.replySent,
             replyFailed |-> l.replyFailed,
             agreementSent |-> l.agreementSent,
             agreementFailed |-> l.agreementFailed, agreedAtStart |-> l.agreedAtStart,
             dupInFlight |-> l.dupInFlight]]

\* The handler suspends at an await.
Await(st, hi, l, pc) ==
  [store |-> st, history |-> hi, h |-> [l EXCEPT !.pc = pc], done |-> NoDone]

\* Finish without the call of markProcessed.
Finish_NotMarked(st, hi, l) ==
  Return(setLastTemplateId(st, l.thread, l.template_id), hi, l, 200, "success")

\* Steps 13 to 15: the end of a delivery that sent its reply.
Finish(st, hi, l) ==
  Return(markProcessed(setLastTemplateId(st, l.thread, l.template_id), l.message_id),
         hi, l, 200, "success")

\* Steps 3.4 to 3.7, up to the call of classifyEmail. The handler's own
\* wrong-person pattern (line 308) is seen through the same detector as
\* RX.wrongPerson; mentionsSender says that the text quotes the sender's
\* address.
BeforeClassify(st, hi, l, subjectStop, body) ==
  LET senderEmail == IF l.threadFrom # NoEmail THEN l.threadFrom ELSE l.lead_email
  IN  IF subjectStop
        THEN Return(markProcessed(markAsUnsubscribed(st, l.lead_email), l.message_id),
                    hi, l, 200, "subjectStop")
      ELSE IF body.len = 0
        THEN Return(markProcessed(st, l.message_id), hi, l, 200, "blank")
      ELSE IF "ooo" \in body.hits
        THEN Return(markProcessed(st, l.message_id), hi, l, 200, "outOfOffice")
      ELSE IF "wrongPerson" \in body.hits /\ body.mentionsSender
              /\ senderEmail # NoEmail
        THEN Return(markProcessed(st, l.message_id), hi, l, 200, "wrongPersonSameEmail")
      ELSE Await(st, hi, [l EXCEPT !.body = body], "classify")

\* From the entry of the handler to the call of fetchThread.
OnWebhook(st, hi, req, subjectStop, body, dupInFlight) ==
  LET effectiveThreadId ==
        IF req.original_message_id # NoThread THEN req.original_message_id
        ELSE req.message_id
      l == [pc |-> "start", message_id |-> req.message_id,
            thread |-> effectiveThreadId, lead_email |-> req.lead_email,
            email_account |-> req.email_account, threadFrom |-> req.lead_email,
            body |-> NoBody, template_id |-> NoTemplate, sigs |-> {},
            okToAutoRespond |-> FALSE, blockingReasons |-> <<>>,
            replySent |-> FALSE, replyFailed |-> FALSE, agreementSent |-> FALSE,
            agreementFailed |-> FALSE,
            agreedAtStart |-> IF req.message_id # NoMessageId
                                THEN isAgreementSent(st, effectiveThreadId)
                                ELSE FALSE,
            dupInFlight |-> dupInFlight]
      messageIdEqualsThreadId == req.message_id = effectiveThreadId
  IN  IF req.event # "REPLY_RECEIVED"
        THEN Return(st, hi, l, 200, "ignored")
      ELSE IF req.message_id = NoMessageId
        THEN Return(st, hi, l, 400, "missingMessageId")
      ELSE IF isProcessed(st, req.message_id) /\ ~messageIdEqualsThreadId
        THEN Return(st, hi, l, 200, "duplicate")
      ELSE IF isUnsubscribed(st, req.lead_email)
        THEN Return(markProcessed(st, req.message_id), hi, l, 200, "unsubscribed")
      ELSE IF req.email_account
        THEN Await(st, hi, l, "fetch")
      ELSE BeforeClassify(st, hi, l, subjectStop, body)

\* AfterFetch that also clears the manual-owner flag when the thread could
\* not be fetched.
AfterFetch_ResetsOnFailedFetch(st, hi, l, fetched, subjectStop, body) ==
  IF ~fetched.ok \/ ~fetched.hasLatest
    THEN BeforeClassify(resetManualOwner(st, l.thread), hi, l, subjectStop, body)
  ELSE
    LET l1 == [l EXCEPT !.threadFrom = IF fetched.fromEmail # NoEmail
                                         THEN fetched.fromEmail ELSE l.lead_email]
    IN  IF fetched.ownLast \in {"campaign", "old"}
          THEN IF isManualOwner(st, l.thread)
                 THEN BeforeClassify(resetManualOwner(st, l.thread),
                                     [hi EXCEPT !.ownerResets[l.thread] = @ + 1],
                                     l1, subjectStop, body)
                 ELSE BeforeClassify(st, hi, l1, subjectStop, body)
        ELSE IF fetched.ownLast = "unmarked"
          THEN Return(markProcessed(markAsManualOwner(st, l.thread), l.message_id),
                      hi, l1, 200, "manualReplyDetected")
        ELSE BeforeClassify(st, hi, l1, subjectStop, body)

\* From the return of fetchThread to the call of classifyEmail. fetched is
\* what the thread shows: whether the call succeeded, whether the thread has
\* a latest message, its sender, and what the scan for our last outbound
\* message found ("none", "campaign", "old", "unmarked" or "marked").
AfterFetch(st, hi, l, fetched, subjectStop, body) ==
  IF ~fetched.ok \/ ~fetched.hasLatest
    THEN BeforeClassify(st, hi, l, subjectStop, body)
  ELSE
    LET l1 == [l EXCEPT !.threadFrom = IF fetched.fromEmail # NoEmail
                                         THEN fetched.fromEmail ELSE l.lead_email]
    IN  IF fetched.ownLast \in {"campaign", "old"}
          THEN IF isManualOwner(st, l.thread)
                 THEN BeforeClassify(resetManualOwner(st, l.thread),
                                     [hi EXCEPT !.ownerResets[l.thread] = @ + 1],
                                     l1, subjectStop, body)
                 ELSE BeforeClassify(st, hi, l1, subjectStop, body)
        ELSE IF fetched.ownLast = "unmarked"
          THEN Return(markProcessed(markAsManualOwner(st, l.thread), l.message_id),
                      hi, l1, 200, "manualReplyDetected")
        ELSE BeforeClassify(st, hi, l1, subjectStop, body)

\* buildThreadState without the agreement flag of the thread.
buildThreadState_NoAgreementFlag(st, threadId, processedMessageIds) ==
  [autoRepliesSent |-> getAutoRepliesSent(st, threadId),
   agreementSent |-> FALSE,
   manualOwner |-> isManualOwner(st, threadId),
   lastTemplateSent |-> getLastTemplateId(st, threadId),
   processedMessageIds |-> processedMessageIds]

\* buildThreadState without the manual-owner flag of the thread.
buildThreadState_NoManualOwner(st, threadId, processedMessageIds) ==
  [autoRepliesSent |-> getAutoRepliesSent(st, threadId),
   agreementSent |-> isAgreementSent(st, threadId),
   manualOwner |-> FALSE,
   lastTemplateSent |-> getLastTemplateId(st, threadId),
   processedMessageIds |-> processedMessageIds]

\* Step 4.6: the thread state handed to the decision.
buildThreadState(st, threadId, processedMessageIds) ==
  [autoRepliesSent |-> getAutoRepliesSent(st, threadId),
   agreementSent |-> isAgreementSent(st, threadId),
   manualOwner |-> isManualOwner(st, threadId),
   lastTemplateSent |-> getLastTemplateId(st, threadId),
   processedMessageIds |-> processedMessageIds]

roleGuessingTemplates == {"NO_JOB_POST", "ROLE_UNCLEAR", "ASKING_WHICH_ROLE"}

\* The recipient of the reply: lead_email || threadFrom.
replyRecipient(l) == IF l.lead_email # NoEmail THEN l.lead_email ELSE l.threadFrom

\* The recipient of the agreement: the sender of the thread's latest message
\* when it differs from lead_email, else the thread's last sender, else
\* lead_email.
agreementRecipient(st, l) ==
  IF l.threadFrom # NoEmail /\ l.threadFrom # l.lead_email THEN l.threadFrom
  ELSE IF getLastFrom(st, l.thread) # NoEmail THEN getLastFrom(st, l.thread)
  ELSE l.lead_email

\* Steps 5 and 11, up to the call of sendEmail.
BeforeReply(st, hi, l) ==
  LET toEmail == replyRecipient(l)
  IN  IF l.template_id \notin TPL
        THEN Return(st, hi, l, 500, "scriptFailed")
      ELSE IF ~l.email_account \/ toEmail = NoEmail
        THEN Return(st, hi, l, 500, "replyFailed")
      ELSE Await(st, hi, l, "sendReply")

\* LockedRolesStep that replaces the template only when more than one role
\* is locked.
LockedRolesStep_NeedsTwoRoles(st, hi, l, first) ==
  IF Len(getLockedRoles(st, l.thread)) > 1 /\ l.template_id \in roleGuessingTemplates
    THEN LET again == decideAutoRespond(
                        [template_id |-> "ROLE_CONFIRMED_FOLLOWUP",
                         modelSignals |-> first.modelSignals, body |-> l.body,
                         threadState |-> buildThreadState(st, l.thread, {}),
                         messageId |-> l.message_id,
                         confidenceThreshold |-> NoThreshold])
         IN  BeforeReply(st, hi, [l EXCEPT !.template_id = "ROLE_CONFIRMED_FOLLOWUP",
                                           !.sigs = again.normalizedSignals,
                                           !.okToAutoRespond = again.okToAutoRespond,
                                           !.blockingReasons = again.blockingReasons])
    ELSE BeforeReply(st, hi, l)

\* Step 4.12: with locked roles, a role-guessing template is replaced and the
\* decision is computed again; the handler goes on whatever it says.
LockedRolesStep(st, hi, l, first) ==
  IF Len(getLockedRoles(st, l.thread)) > 0 /\ l.template_id \in roleGuessingTemplates
    THEN LET again == decideAutoRespond(
                        [template_id |-> "ROLE_CONFIRMED_FOLLOWUP",
                         modelSignals |-> first.modelSignals, body |-> l.body,
                         threadState |-> buildThreadState(st, l.thread, {}),
                         messageId |-> l.message_id,
                         confidenceThreshold |-> NoThreshold])
         IN  BeforeReply(st, hi, [l EXCEPT !.template_id = "ROLE_CONFIRMED_FOLLOWUP",
                                           !.sigs = again.normalizedSignals,
                                           !.okToAutoRespond = again.okToAutoRespond,
                                           !.blockingReasons = again.blockingReasons])
    ELSE BeforeReply(st, hi, l)

\* From the return of classifyEmail to the next await. classified is the
\* classifier's answer: whether the call succeeded, the template, the
\* signals, and the extracted role and contact address.
AfterClassify(st, hi, l, classified) ==
  IF ~classified.ok THEN Return(st, hi, l, 500, "classificationFailed")
  ELSE
    LET st1 == addLockedRole(st, l.thread, classified.role)
        senderEmail == IF l.threadFrom # NoEmail THEN l.threadFrom ELSE l.lead_email
        st2 == setLastFrom(st1, l.thread, senderEmail)
        first == [template_id |-> classified.template_id,
                  modelSignals |-> classified.signals, body |-> l.body,
                  threadState |->
                    buildThreadState(st2, l.thread,
                                     IF isProcessed(st2, l.message_id)
                                       THEN {l.message_id} ELSE {}),
                  messageId |-> l.message_id,
                  confidenceThreshold |-> HandlerThreshold]
        dec == decideAutoRespond(first)
        template_id == dec.effectiveTemplateId
        l1 == [l EXCEPT !.template_id = template_id, !.sigs = dec.normalizedSignals,
                        !.okToAutoRespond = dec.okToAutoRespond,
                        !.blockingReasons = dec.blockingReasons]
        contactEmail == classified.new_contact_email
    IN  IF template_id = "UNSUBSCRIBE"
          THEN Return(markProcessed(markAsUnsubscribed(st2, l.lead_email), l.message_id),
                      [hi EXCEPT !.optedOut = IF l.lead_email # NoEmail
                                                THEN @ \cup {l.lead_email} ELSE @],
                      l1, 200, "UNSUBSCRIBE")
        ELSE IF template_id \in {"OUT_OF_OFFICE", "AUTO_REPLY_BLANK", "DONE_ALL_SET"}
          THEN Return(markProcessed(st2, l.message_id), hi, l1, 200, template_id)
        ELSE IF ~dec.okToAutoRespond
          THEN Await(st2, hi, l1, "alert")
        ELSE IF template_id = "WRONG_PERSON_NO_CONTACT"
          THEN Return(markProcessed(st2, l.message_id), hi, l1, 200, "wrongPersonNoContact")
        ELSE IF template_id = "WRONG_PERSON_WITH_CONTACT"
                /\ (contactEmail = NoEmail
                    \/ LowerTrim(contactEmail) = LowerTrim(l.lead_email)
                    \/ LowerTrim(contactEmail) = LowerTrim(senderEmail))
          THEN Await(st2, hi, l1, "alert")
        ELSE LockedRolesStep(st2, hi, l1, first)

\* AfterAlert that clears the agreement flag of the thread when it hands the
\* message to manual review.
AfterAlert_ClearsAgreement(st, hi, l) ==
  Return(markProcessed([st EXCEPT !.agreementSent[l.thread] = FALSE], l.message_id),
         hi, l, 200, "manualReview")

\* AfterAlert that answers without marking the message processed.
AfterAlert_NotMarked(st, hi, l) ==
  Return(st, hi, l, 200, "manualReview")

\* From the return of the manual-review sendAlert to the return.
AfterAlert(st, hi, l) ==
  Return(markProcessed(st, l.message_id), hi, l, 200, "manualReview")

\* Step 12, from the guardrails to the call of sendAgreement.
AgreementStep(st, hi, l) ==
  LET explicitlyAskingAgain ==
        l.sigs \cap {"send_agreement", "asks_for_agreement", "send_it"} # {}
      isShortAcknowledgment == l.body.len < AckLength /\ l.body.ack
      wasAlreadySent == isAgreementSent(st, l.thread)
      explicitlyAskingForAgreement ==
        \/ l.sigs \cap {"send_agreement", "asks_for_agreement", "send_it"} # {}
        \/ l.template_id = "YES_SEND"
        \/ l.template_id = "ASK_AGREEMENT"
      ackReturn == Return(markProcessed(st, l.message_id), hi, l, 200, "acknowledgment")
      guardrails ==
        IF has(l.sigs, "wants_resume_first") /\ ~explicitlyAskingForAgreement
          THEN Finish(st, hi, l)
        ELSE IF has(l.sigs, "wants_call_first") THEN Finish(st, hi, l)
        ELSE IF has(l.sigs, "auto_reply_blank") THEN Finish(st, hi, l)
        ELSE IF has(l.sigs, "done_all_set") THEN Finish(st, hi, l)
        ELSE IF has(l.sigs, "already_signed")
          THEN Return(markProcessed(markAgreementSent(st, l.thread), l.message_id),
                      hi, l, 200, "alreadySigned")
        ELSE Await(st, hi, l, "sendAgreement")
  IN  IF wasAlreadySent /\ ~explicitlyAskingAgain
        THEN IF isShortAcknowledgment THEN ackReturn ELSE guardrails
      ELSE IF wasAlreadySent /\ explicitlyAskingAgain /\ ~isShortAcknowledgment
        THEN guardrails
      ELSE IF wasAlreadySent /\ isShortAcknowledgment
        THEN ackReturn
      ELSE guardrails

\* AfterReply with the counter incremented before the outcome of the send
\* is looked at.
AfterReply_CountsFailedSend(st, hi, l, sent) ==
  LET st1 == incrementAutoRepliesSent(st, l.thread)
  IN  IF ~sent THEN Return(st1, hi, [l EXCEPT !.replyFailed = TRUE], 500, "replyFailed")
      ELSE
        LET hi1 == [hi EXCEPT !.replies[l.thread] = @ + 1,
                              !.lastReply[l.thread] = l.template_id,
                              !.incrementsBy[l.message_id] = @ + 1]
            l1 == [l EXCEPT !.replySent = TRUE]
        IN  IF l.template_id \in AUTO_SEND_TEMPLATES
              THEN AgreementStep(st1, hi1, l1)
              ELSE Finish(st1, hi1, l1)

\* AfterReply that marks the message processed also when the send failed.
AfterReply_MarksFailedSend(st, hi, l, sent) ==
  IF ~sent THEN Return(markProcessed(st, l.message_id), hi, [l EXCEPT !.replyFailed = TRUE], 500, "replyFailed")
  ELSE
    LET st1 == incrementAutoRepliesSent(st, l.thread)
        hi1 == [hi EXCEPT !.replies[l.thread] = @ + 1,
                          !.lastReply[l.thread] = l.template_id,
                          !.incrementsBy[l.message_id] = @ + 1]
        l1 == [l EXCEPT !.replySent = TRUE]
    IN  IF l.template_id \in AUTO_SEND_TEMPLATES
          THEN AgreementStep(st1, hi1, l1)
          ELSE Finish(st1, hi1, l1)

\* AfterReply that goes on to the agreement step under every template.
AfterReply_AgreementForEveryTemplate(st, hi, l, sent) ==
  IF ~sent THEN Return(st, hi, [l EXCEPT !.replyFailed = TRUE], 500, "replyFailed")
  ELSE
    LET st1 == incrementAutoRepliesSent(st, l.thread)
        hi1 == [hi EXCEPT !.replies[l.thread] = @ + 1,
                          !.lastReply[l.thread] = l.template_id,
                          !.incrementsBy[l.message_id] = @ + 1]
        l1 == [l EXCEPT !.replySent = TRUE]
    IN  AgreementStep(st1, hi1, l1)

\* From the return of the reply's sendEmail to the next await.
AfterReply(st, hi, l, sent) ==
  IF ~sent THEN Return(st, hi, [l EXCEPT !.replyFailed = TRUE], 500, "replyFailed")
  ELSE
    LET st1 == incrementAutoRepliesSent(st, l.thread)
        hi1 == [hi EXCEPT !.replies[l.thread] = @ + 1,
                          !.lastReply[l.thread] = l.template_id,
                          !.incrementsBy[l.message_id] = @ + 1]
        l1 == [l EXCEPT !.replySent = TRUE]
    IN  IF l.template_id \in AUTO_SEND_TEMPLATES
          THEN AgreementStep(st1, hi1, l1)
          ELSE Finish(st1, hi1, l1)

\* AfterAgreement that marks the agreement as sent whatever the outcome of
\* the send.
AfterAgreement_MarksFailedSend(st, hi, l, sent) ==
  IF ~sent THEN Finish(markAgreementSent(st, l.thread), hi,
                       [l EXCEPT !.agreementFailed = TRUE])
  ELSE Await(markAgreementSent(st, l.thread),
             [hi EXCEPT !.agreements[l.thread] = @ + 1,
                        !.agreementsBy[l.message_id] = @ + 1],
             [l EXCEPT !.agreementSent = TRUE], "agreementAlert")

\* From the return of sendAgreement to the next await.
AfterAgreement(st, hi, l, sent) ==
  IF ~sent THEN Finish(st, hi, [l EXCEPT !.agreementFailed = TRUE])
  ELSE Await(markAgreementSent(st, l.thread),
             [hi EXCEPT !.agreements[l.thread] = @ + 1,
                        !.agreementsBy[l.message_id] = @ + 1],
             [l EXCEPT !.agreementSent = TRUE], "agreementAlert")

\* From the return of the agreement's sendAlert to the next await.
AfterAgreementAlert(st, hi, l) ==
  LET toEmail == IF l.lead_email # NoEmail THEN l.lead_email ELSE l.threadFrom
  IN  IF l.template_id \in {"YES_SEND", "ASK_AGREEMENT"}
        THEN IF toEmail # NoEmail /\ l.email_account
               THEN Await(st, hi, l, "followUp")
               ELSE Finish(st, hi, l)
        ELSE Finish(st, hi, l)

\* From the return of the follow-up's sendEmail to the return: a failure is
\* logged and nothing else.
AfterFollowUp(st, hi, l, sent) == Finish(st, hi, l)

\* ------------------------------------------------------------------------
\* The inputs of a delivery
\* ------------------------------------------------------------------------
LeadEmails == {NoEmail, "a@x.com", " A@X.com "}

\* The message id and original_message_id of a webhook: two ordinary replies
\* on thread t1, a reply whose message id is the thread id, and one without
\* original_message_id.
IdPairs == {<<"m1", "t1">>, <<"m2", "t1">>, <<"t1", "t1">>, <<"t1", NoThread>>}

Request(event, message_id, original_message_id, lead_email, email_account) ==
  [event |-> event, message_id |-> message_id,
   original_message_id |-> original_message_id, lead_email |-> lead_email,
   email_account |-> email_account]

Requests ==
  {Request("REPLY_RECEIVED", p[1], p[2], "a@x.com", TRUE) : p \in IdPairs}
  \cup {Request("REPLY_RECEIVED", "m1", "t1", e, TRUE) : e \in LeadEmails}
  \cup {Request("REPLY_RECEIVED", "m1", "t1", "a@x.com", FALSE),
        Request("EMAIL_OPENED", "m1", "t1", "a@x.com", TRUE),
        Request("REPLY_RECEIVED", NoMessageId, "t1", "a@x.com", TRUE)}

\* Message texts: empty; an out-of-office notice; "yes, send it over"; "Can
\* you send the agreement?"; "thanks, got it"; "yes, I signed it"; a referral
\* that quotes the sender's own address; "unsubscribe please"; a long
\* question; "yes, already signed it, let's have a call first".
HandlerBodies ==
  {[len |-> 0, hits |-> {}, ack |-> FALSE, mentionsSender |-> FALSE],
   [len |-> 40, hits |-> {"ooo"}, ack |-> FALSE, mentionsSender |-> FALSE],
   [len |-> 40, hits |-> {"explicitYes", "sendIt"}, ack |-> FALSE,
    mentionsSender |-> FALSE],
   [len |-> 40, hits |-> {"question", "sendAgreement", "asksForAgreement"},
    ack |-> FALSE, mentionsSender |-> FALSE],
   [len |-> 40, hits |-> {}, ack |-> TRUE, mentionsSender |-> FALSE],
   [len |-> 40, hits |-> {"explicitYes", "alreadySigned"}, ack |-> FALSE,
    mentionsSender |-> FALSE],
   [len |-> 40, hits |-> {"wrongPerson"}, ack |-> FALSE, mentionsSender |-> TRUE],
   [len |-> 40, hits |-> {"unsubscribe"}, ack |-> FALSE, mentionsSender |-> FALSE],
   [len |-> 300, hits |-> {"question"}, ack |-> FALSE, mentionsSender |-> FALSE],
   [len |-> 40, hits |-> {"explicitYes", "alreadySigned", "wantsCallFirst"},
    ack |-> FALSE, mentionsSender |-> FALSE]}

Fetch(ok, hasLatest, fromEmail, ownLast) ==
  [ok |-> ok, hasLatest |-> hasLatest, fromEmail |-> fromEmail, ownLast |-> ownLast]

Fetches ==
  {Fetch(FALSE, FALSE, NoEmail, "none"), Fetch(TRUE, FALSE, NoEmail, "none"),
   Fetch(TRUE, TRUE, NoEmail, "none")}
  \cup {Fetch(TRUE, TRUE, "b@x.com", o) :
          o \in {"none", "campaign", "old", "unmarked", "marked"}}

Classification(ok, template_id, signals, role) ==
  [ok |-> ok, template_id |-> template_id, signals |-> signals, role |-> role,
   new_contact_email |-> NoEmail]

Classifications ==
  {Classification(FALSE, NoTemplate, {}, NoRole),
   Classification(TRUE, "YES_SEND", {}, NoRole),
   Classification(TRUE, "YES_SEND", {"explicit_yes"}, NoRole),
   Classification(TRUE, "ASK_AGREEMENT", {}, NoRole),
   Classification(TRUE, "INTERESTED", {"interested"}, NoRole),
   Classification(TRUE, "INTERESTED", {"interested"}, "nurse"),
   Classification(TRUE, "ROLE_UNCLEAR", {"explicit_yes"}, "recruiter"),
   Classification(TRUE, "ROLE_UNCLEAR", {"explicit_yes"}, NoRole),
   Classification(TRUE, "NOT_INTERESTED", {}, NoRole),
   Classification(TRUE, "UNSUBSCRIBE", {}, NoRole),
   Classification(TRUE, "OUT_OF_OFFICE", {}, NoRole)}

\* ------------------------------------------------------------------------
\* The webhook handlers, interleaved at their awaits
\* ------------------------------------------------------------------------
NoCall == [template_id |-> NoTemplate]

Init ==
  /\ call = NoCall
  /\ decision = NoDecision
  /\ store = StoreInit
  /\ handlers = [i \in Slots |-> Idle]
  /\ history = HistoryInit
  /\ lastDone = NoDone

\* The result r of a stretch of handler i becomes the next state; lastDone is
\* the delivery that returned in this step, if one did.
Becomes(i, r) ==
  /\ store' = r.store
  /\ history' = r.history
  /\ handlers' = [handlers EXCEPT ![i] = r.h]
  /\ lastDone' = r.done
  /\ UNCHANGED <<call, decision>>

\* A webhook arrives and its handler runs to its first await or to its return.
Receive(i) ==
  /\ handlers[i] = Idle
  /\ \A j \in Slots : j < i => handlers[j] # Idle
  /\ history.arrived < MaxDeliveries
  /\ \E req \in Requests, subjectStop \in BOOLEAN, body \in HandlerBodies :
       LET dupInFlight == \E j \in Slots : /\ handlers[j] # Idle
                                          /\ handlers[j].message_id = req.message_id
       IN  Becomes(i, OnWebhook(store, [history EXCEPT !.arrived = @ + 1], req,
                                subjectStop, body, dupInFlight))

FetchReturns(i) ==
  /\ handlers[i].pc = "fetch"
  /\ \E fetched \in Fetches, subjectStop \in BOOLEAN, body \in HandlerBodies :
       Becomes(i, AfterFetch(store, history, handlers[i], fetched, subjectStop, body))

ClassifyReturns(i) ==
  /\ handlers[i].pc = "classify"
  /\ \E classified \in Classifications :
       Becomes(i, AfterClassify(store, history, handlers[i], classified))

AlertReturns(i) ==
  /\ handlers[i].pc = "alert"
  /\ Becomes(i, AfterAlert(store, history, handlers[i]))

ReplyReturns(i) ==
  /\ handlers[i].pc = "sendReply"
  /\ \E sent \in BOOLEAN : Becomes(i, AfterReply(store, history, handlers[i], sent))

AgreementReturns(i) ==
  /\ handlers[i].pc = "sendAgreement"
  /\ \E sent \in BOOLEAN : Becomes(i, AfterAgreement(store, history, handlers[i], sent))

AgreementAlertReturns(i) ==
  /\ handlers[i].pc = "agreementAlert"
  /\ Becomes(i, AfterAgreementAlert(store, history, handlers[i]))

FollowUpReturns(i) ==
  /\ handlers[i].pc = "followUp"
  /\ \E sent \in BOOLEAN : Becomes(i, AfterFollowUp(store, history, handlers[i], sent))

Resume(i) ==
  \/ FetchReturns(i)
  \/ ClassifyReturns(i)
  \/ AlertReturns(i)
  \/ ReplyReturns(i)
  \/ AgreementReturns(i)
  \/ AgreementAlertReturns(i)
  \/ FollowUpReturns(i)

\* Deliveries that may overlap: up to MaxInFlight webhooks, each arriving at
\* any moment, also while earlier handlers are suspended.
ReceiveAnyTime(i) ==
  /\ history.arrived < MaxInFlight
  /\ Receive(i)

Next == \E i \in Slots : ReceiveAnyTime(i) \/ Resume(i)

Spec == Init /\ [][Next]_vars

\* Deliveries handled one at a time: up to MaxDeliveries webhooks, each
\* arriving only when no handler is in flight.
ReceiveAlone(i) ==
  /\ \A j \in Slots : handlers[j] = Idle
  /\ Receive(i)

NextSeq == \E i \in Slots : ReceiveAlone(i) \/ Resume(i)

SpecSeq == Init /\ [][NextSeq]_vars

\* An awaited call of handler i is rejected (sendAlert, which swallows its
\* errors, returns): fetchThread fails on a webhook without text,
\* classifyEmail, sendEmail and sendAgreement throw.
Rejects(i) ==
  \/ /\ handlers[i].pc = "fetch"
     /\ Becomes(i, AfterFetch(store, history, handlers[i],
                              Fetch(FALSE, FALSE, NoEmail, "none"), FALSE, NoBody))
  \/ /\ handlers[i].pc = "classify"
     /\ Becomes(i, AfterClassify(store, history, handlers[i],
                                 Classification(FALSE, NoTemplate, {}, NoRole)))
  \/ AlertReturns(i)
  \/ /\ handlers[i].pc = "sendReply"
     /\ Becomes(i, AfterReply(store, history, handlers[i], FALSE))
  \/ /\ handlers[i].pc = "sendAgreement"
     /\ Becomes(i, AfterAgreement(store, history, handlers[i], FALSE))
  \/ AgreementAlertReturns(i)
  \/ /\ handlers[i].pc = "followUp"
     /\ Becomes(i, AfterFollowUp(store, history, handlers[i], FALSE))

\* The same deliveries when every awaited call settles: a call that has not
\* resolved is eventually rejected, and the event loop resumes the handler.
\* Rejects(i) is a case of Resume(i) that is enabled whenever handler i is
\* suspended, and every step of a suspended handler moves it to a later
\* await or to its return, so this is weak fairness of Resume(i).
SpecSeqFair == SpecSeq /\ \A i \in Slots : WF_vars(Rejects(i))

\* A burst of replies of one lead on one thread: up to MaxDeliveries
\* webhooks, up to MaxInFlight of them in flight at the same time, the
\* later ones arriving while or after the earlier ones are handled. The
\* lead writes "yes, send it over" or a long question; the thread is
\* fetched with our marked reply as the last outbound message; the
\* classifier answers INTERESTED, ROLE_UNCLEAR with a role, or YES_SEND.
BurstRequests ==
  {Request("REPLY_RECEIVED", p[1], p[2], "a@x.com", TRUE) :
     p \in {<<"m1", "t1">>, <<"m2", "t1">>, <<"t1", "t1">>}}

BurstBodies ==
  {[len |-> 40, hits |-> {"explicitYes", "sendIt"}, ack |-> FALSE,
    mentionsSender |-> FALSE],
   [len |-> 300, hits |-> {"question"}, ack |-> FALSE, mentionsSender |-> FALSE]}

BurstFetches == {Fetch(TRUE, TRUE, "b@x.com", "marked")}

BurstClassifications ==
  {Classification(TRUE, "INTERESTED", {"interested"}, NoRole),
   Classification(TRUE, "ROLE_UNCLEAR", {"explicit_yes"}, "recruiter"),
   Classification(TRUE, "YES_SEND", {"explicit_yes"}, NoRole)}

ReceiveInBurst(i) ==
  /\ handlers[i] = Idle
  /\ \A j \in Slots : j < i => handlers[j] # Idle
  /\ history.arrived < MaxDeliveries
  /\ \E req \in BurstRequests, body \in BurstBodies :
       LET dupInFlight == \E j \in Slots : /\ handlers[j] # Idle
                                          /\ handlers[j].message_id = req.message_id
       IN  Becomes(i, OnWebhook(store, [history EXCEPT !.arrived = @ + 1], req,
                                FALSE, body, dupInFlight))

FetchReturnsInBurst(i) ==
  /\ handlers[i].pc = "fetch"
  /\ \E fetched \in BurstFetches, body \in BurstBodies :
       Becomes(i, AfterFetch(store, history, handlers[i], fetched, FALSE, body))

ClassifyReturnsInBurst(i) ==
  /\ handlers[i].pc = "classify"
  /\ \E classified \in BurstClassifications :
       Becomes(i, AfterClassify(store, history, handlers[i], classified))

ResumeInBurst(i) ==
  \/ FetchReturnsInBurst(i)
  \/ ClassifyReturnsInBurst(i)
  \/ AlertReturns(i)
  \/ ReplyReturns(i)
  \/ AgreementReturns(i)
  \/ AgreementAlertReturns(i)
  \/ FollowUpReturns(i)

NextBurst == \E i \in Slots : ReceiveInBurst(i) \/ ResumeInBurst(i)

SpecBurst == Init /\ [][NextBurst]_vars

\* addLockedRole on its own: roles are added to thread t1 one after the
\* other, among them roles that differ in letter case or in surrounding
\* whitespace only, an empty role, a blank one and a missing one.
RoleNames ==
  {"nurse", "Nurse", "NURSE", "nurse ", "recruiter", "Recruiter", "", " ", NoRole}

AddLockedRole ==
  /\ \E role \in RoleNames : store' = addLockedRole(store, "t1", role)
  /\ UNCHANGED <<call, decision, handlers, history, lastDone>>

NextRoles == AddLockedRole

SpecRoles == Init /\ [][NextRoles]_vars

\* ------------------------------------------------------------------------
\* The decision engine on its own: one call of decideAutoRespond on inputs
\* drawn from Calls and Messages
\* ------------------------------------------------------------------------
DecideInit ==
  /\ call \in Calls
  /\ decision = NoDecision
  /\ store = StoreInit
  /\ handlers = [i \in Slots |-> Idle]
  /\ history = HistoryInit
  /\ lastDone = NoDone

\* Decide with a decision engine that records the message id it was given
\* in the state store.
Decide_RecordsMessage ==
  /\ decision = NoDecision
  /\ \E msg \in Messages :
       LET input == [template_id |-> call.template_id,
                     modelSignals |-> msg.modelSignals, body |-> msg.body,
                     threadState |-> call.threadState, messageId |-> call.messageId,
                     confidenceThreshold |-> call.confidenceThreshold]
       IN  decision' = [made |-> TRUE, input |-> input,
                        result |-> decideAutoRespond(input)]
  /\ store' = markProcessed(store, call.messageId)
  /\ UNCHANGED <<call, handlers, history, lastDone>>

Decide ==
  /\ decision = NoDecision
  /\ \E msg \in Messages :
       LET input == [template_id |-> call.template_id,
                     modelSignals |-> msg.modelSignals, body |-> msg.body,
                     threadState |-> call.threadState, messageId |-> call.messageId,
                     confidenceThreshold |-> call.confidenceThreshold]
       IN  decision' = [made |-> TRUE, input |-> input,
                        result |-> decideAutoRespond(input)]
  /\ UNCHANGED <<call, store, handlers, history, lastDone>>

DecideNext == Decide

SpecDecide == DecideInit /\ [][DecideNext]_vars

\* ------------------------------------------------------------------------
\* Properties of the decision (checked under SpecDecide)
\* ------------------------------------------------------------------------

\* C1: every call of decideAutoRespond whose threadState.agreementSent is
\* true returns okToAutoRespond = false, whatever the template, the signals,
\* the rest of the thread state, the message id and the caller's threshold.
C1_AgreementSentNeverAuto ==
  (decision.made /\ decision.input.threadState.agreementSent)
    => ~decision.result.okToAutoRespond

\* A call stopped by agreementSent alone: the same call on a thread without
\* an agreement is answered automatically.
C1_Witness ==
  /\ decision.made
  /\ decision.input.threadState.agreementSent
  /\ decision.result.blockingReasons = <<"agreementSent">>
  /\ decideAutoRespond([decision.input EXCEPT !.threadState.agreementSent = FALSE])
       .okToAutoRespond

\* C7: a hard-stop signal among the normalized signals, or a hard-stop
\* template, gives okToAutoRespond = false, confidence 1 and the effective
\* template of a hard stop whose condition holds (UNSUBSCRIBE whenever the
\* unsubscribe condition holds); a body of fewer than two characters always
\* gives such a hard stop.
C7_HardStops ==
  decision.made =>
    LET template_id == decision.input.template_id
        sigs == normalizeSignals(decision.input.body, decision.input.modelSignals)
        r == decision.result
        unsub == has(sigs, "unsubscribe") \/ template_id = "UNSUBSCRIBE"
        ooo == has(sigs, "out_of_office") \/ template_id = "OUT_OF_OFFICE"
        blank == has(sigs, "auto_reply_blank") \/ template_id = "AUTO_REPLY_BLANK"
        allSet == has(sigs, "done_all_set") \/ template_id = "DONE_ALL_SET"
        stopped ==
          /\ ~r.okToAutoRespond
          /\ r.confidence = 100
          /\ \/ r.effectiveTemplateId = "UNSUBSCRIBE" /\ unsub
             \/ r.effectiveTemplateId = "OUT_OF_OFFICE" /\ ooo
             \/ r.effectiveTemplateId = "AUTO_REPLY_BLANK" /\ blank
             \/ r.effectiveTemplateId = "DONE_ALL_SET" /\ allSet
    IN  /\ (unsub \/ ooo \/ blank \/ allSet) => stopped
        /\ unsub => r.effectiveTemplateId = "UNSUBSCRIBE"
        /\ decision.input.body.len < BlankLength => stopped

\* A one-character body under a template that is answered automatically on a
\* fresh thread is stopped as a blank auto-reply.
C7_Witness ==
  /\ decision.made
  /\ decision.input.body.len = 1
  /\ decision.input.template_id = "NOT_INTERESTED"
  /\ decision.input.modelSignals = {}
  /\ ~decision.input.threadState.agreementSent
  /\ decision.result.effectiveTemplateId = "AUTO_REPLY_BLANK"
  /\ decision.result.confidence = 100

\* C8: the hard stops are tested in the order unsubscribe, out-of-office,
\* blank auto-reply, all-set, agreement-already-sent, and the decision is
\* that of the first one whose condition holds: its reason is the only
\* blocking reason (no soft-blocker reason joins it), and an unsubscribe on a
\* thread with agreementSent = true still has effective template UNSUBSCRIBE.
C8_HardStopOrder ==
  decision.made =>
    LET template_id == decision.input.template_id
        sigs == decision.result.normalizedSignals
        r == decision.result
        first ==
          IF has(sigs, "unsubscribe") \/ template_id = "UNSUBSCRIBE"
            THEN "UNSUBSCRIBE"
          ELSE IF has(sigs, "out_of_office") \/ template_id = "OUT_OF_OFFICE"
            THEN "OUT_OF_OFFICE"
          ELSE IF has(sigs, "auto_reply_blank") \/ template_id = "AUTO_REPLY_BLANK"
            THEN "AUTO_REPLY_BLANK"
          ELSE IF has(sigs, "done_all_set") \/ template_id = "DONE_ALL_SET"
            THEN "DONE_ALL_SET"
          ELSE IF decision.input.threadState.agreementSent THEN "agreementSent"
          ELSE "none"
    IN  first # "none" =>
          /\ ~r.okToAutoRespond
          /\ r.blockingReasons = <<first>>
          /\ r.effectiveTemplateId =
               (IF first = "agreementSent" THEN template_id ELSE first)

\* An unsubscribe on a thread whose agreement was sent, from a manual owner
\* (a soft blocker), behind a later stop's signal as well.
C8_Witness ==
  /\ decision.made
  /\ decision.input.threadState.agreementSent
  /\ decision.input.threadState.manualOwner
  /\ has(decision.result.normalizedSignals, "unsubscribe")
  /\ has(decision.result.normalizedSignals, "done_all_set")
  /\ decision.result.effectiveTemplateId = "UNSUBSCRIBE"
  /\ decision.result.blockingReasons = <<"UNSUBSCRIBE">>

\* C9: a decision that no hard stop short-circuits has okToAutoRespond = true
\* exactly when no soft blocker and no template rule added a reason and the
\* clamped score is at least the effective threshold.
C9_Verdict ==
  decision.made =>
    LET i == decision.input
        r == decision.result
        sigs == normalizeSignals(i.body, i.modelSignals)
        hardStop ==
          \/ sigs \cap {"unsubscribe", "out_of_office", "auto_reply_blank",
                        "done_all_set"} # {}
          \/ i.template_id \in {"UNSUBSCRIBE", "OUT_OF_OFFICE", "AUTO_REPLY_BLANK",
                                "DONE_ALL_SET"}
          \/ i.threadState.agreementSent
        reasons == softBlockers(i.template_id, sigs, i.threadState, i.messageId)
                   \o templateRules(i.template_id, sigs)
        clamped == score(i.template_id, sigs, i.body.len, i.threadState.autoRepliesSent)
        threshold == decisionThreshold(i.template_id, sigs, i.confidenceThreshold)
    IN  ~hardStop =>
          (r.okToAutoRespond <=> (reasons = <<>> /\ clamped >= threshold))

\* A decision with no blocking reason that the score alone refuses: it is
\* below the caller's threshold.
C9_Witness ==
  /\ decision.made
  /\ ~decision.result.okToAutoRespond
  /\ decision.result.blockingReasons = <<>>
  /\ decision.result.confidence >= 0
  /\ decision.result.confidence < decision.input.confidenceThreshold

\* C10: the confidence returned by decideAutoRespond lies in [0, 1] (0..100
\* in hundredths) for every template, known, unknown or missing, every set
\* of signals and every thread state.
C10_ConfidenceInUnitInterval ==
  decision.made => decision.result.confidence \in 0..100

\* C11: whatever threshold the caller passes (or leaves to the default), an
\* agreement-related decision needs a strictly lower score to pass than the
\* same decision under an unrelated template without the agreement signals.
C11_AgreementThresholdLower ==
  decision.made =>
    LET i == decision.input
        sigs == normalizeSignals(i.body, i.modelSignals)
        others == sigs \ {"send_agreement", "asks_for_agreement"}
    IN  isAgreementRequest(i.template_id, sigs) =>
          decisionThreshold(i.template_id, sigs, i.confidenceThreshold)
            < decisionThreshold("INTERESTED", others, i.confidenceThreshold)

\* The decision was returned by one of the hard stops, before any soft
\* blocker was looked at.
DecisionShortCircuited ==
  LET i == decision.input
      sigs == decision.result.normalizedSignals
  IN  \/ sigs \cap {"unsubscribe", "out_of_office", "auto_reply_blank",
                    "done_all_set"} # {}
      \/ i.template_id \in {"UNSUBSCRIBE", "OUT_OF_OFFICE", "AUTO_REPLY_BLANK",
                            "DONE_ALL_SET"}
      \/ i.threadState.agreementSent

\* C12 as stated: every decision with autoRepliesSent >= 2 and a template
\* outside the depth whitelist has okToAutoRespond = false and the
\* depth-limit reason among its blocking reasons, whatever the signals.
C12_DepthLimitWhateverSignals ==
  (/\ decision.made
   /\ decision.input.threadState.autoRepliesSent >= DepthLimit
   /\ decision.input.template_id \notin DEPTH_WHITELIST)
    => /\ ~decision.result.okToAutoRespond
       /\ SeqHas(decision.result.blockingReasons, "depthLimit")

\* C12, amended: every decision with autoRepliesSent >= 2 and a template
\* outside the depth whitelist has okToAutoRespond = false; unless a hard
\* stop short-circuits it, the depth-limit reason is among its blocking
\* reasons; a hard stop reports its own reason alone.
C12_DepthLimit ==
  (/\ decision.made
   /\ decision.input.threadState.autoRepliesSent >= DepthLimit
   /\ decision.input.template_id \notin DEPTH_WHITELIST)
    => /\ ~decision.result.okToAutoRespond
       /\ ~DecisionShortCircuited
            => SeqHas(decision.result.blockingReasons, "depthLimit")
       /\ DecisionShortCircuited => Len(decision.result.blockingReasons) = 1

\* INTERESTED with an explicit yes after two automated replies: the score
\* clears the threshold and the depth limit is the only reason.
C12_Witness ==
  /\ decision.made
  /\ decision.input.template_id = "INTERESTED"
  /\ decision.input.threadState.autoRepliesSent = DepthLimit
  /\ has(decision.result.normalizedSignals, "explicit_yes")
  /\ decision.result.confidence
       >= decisionThreshold("INTERESTED", decision.result.normalizedSignals,
                            decision.input.confidenceThreshold)
  /\ decision.result.blockingReasons = <<"depthLimit">>

\* C15: a template id that is missing or outside the auto-eligible catalog
\* has base score 0 and the decision is okToAutoRespond = false, whatever
\* the signals, the thread state and the threshold.
C15_UnknownTemplateScoresZero ==
  (decision.made /\ decision.input.template_id \notin AUTO_INTENT_WHITELIST)
    => /\ baseScore(decision.input.template_id) = 0
       /\ ~decision.result.okToAutoRespond

ConfidenceWithMultiTopicPenalty ==
  LET i == decision.input
      sigs == decision.result.normalizedSignals
  IN  IF baseScore(i.template_id) = NotANumber THEN NotANumber
      ELSE clamp01(rawScore(i.template_id, sigs \ {"multi_topic"}, i.body.len,
                            i.threadState.autoRepliesSent) - SUB.multi_topic)

\* C17 as stated: for every message that at least two of the five detectors
\* (agreement request, fees question, resume first, call first, skepticism)
\* match, the normalized signals contain multi_topic and the decision's
\* confidence is the score with the multi_topic penalty.
C17_MultiTopicAlwaysPenalised ==
  (/\ decision.made
   /\ Cardinality(decision.input.body.hits
                    \cap {"sendAgreement", "asksFees", "wantsResumeFirst",
                          "wantsCallFirst", "skeptical"}) >= 2)
    => /\ has(decision.result.normalizedSignals, "multi_topic")
       /\ decision.result.confidence = ConfidenceWithMultiTopicPenalty

\* C17, amended: for every such message the normalized signals contain
\* multi_topic, and unless a hard stop short-circuits the decision (whose
\* confidence is then 1) its confidence is the score with the multi_topic
\* penalty.
C17_MultiTopic ==
  (/\ decision.made
   /\ Cardinality(decision.input.body.hits
                    \cap {"sendAgreement", "asksFees", "wantsResumeFirst",
                          "wantsCallFirst", "skeptical"}) >= 2)
    => /\ has(decision.result.normalizedSignals, "multi_topic")
       /\ ~DecisionShortCircuited
            => decision.result.confidence = ConfidenceWithMultiTopicPenalty
       /\ DecisionShortCircuited => decision.result.confidence = 100

\* A sceptical message about fees, scored under ASK_FEES_ONLY strictly
\* inside the unit interval: the penalty shows in the confidence.
C17_Witness ==
  /\ decision.made
  /\ decision.input.template_id = "ASK_FEES_ONLY"
  /\ decision.input.body.hits = {"asksFees", "skeptical"}
  /\ ~DecisionShortCircuited
  /\ has(decision.result.normalizedSignals, "multi_topic")
  /\ decision.result.confidence = ConfidenceWithMultiTopicPenalty
  /\ decision.result.confidence > 0
  /\ decision.result.confidence < 100

\* The message of the decision is an explicit agreement request.
DecisionAsksForAgreement ==
  LET i == decision.input
      sigs == decision.result.normalizedSignals
  IN  \/ has(sigs, "send_agreement")
      \/ has(sigs, "asks_for_agreement")
      \/ i.template_id = "YES_SEND"
      \/ i.template_id = "ASK_AGREEMENT"

\* C23 as stated: in every decision each of wants_resume_first,
\* wants_call_first and skeptical has its blocking reason if and only if the
\* message is not an explicit agreement request, wrong_person has its
\* blocking reason in every case, and a decision with wrong_person never has
\* okToAutoRespond = true.
C23_SoftIntentsInEveryDecision ==
  decision.made =>
    LET sigs == decision.result.normalizedSignals
        reasons == decision.result.blockingReasons
    IN  /\ \A s \in {"wants_resume_first", "wants_call_first", "skeptical"} :
             SeqHas(reasons, s) <=> (has(sigs, s) /\ ~DecisionAsksForAgreement)
        /\ SeqHas(reasons, "wrong_person") <=> has(sigs, "wrong_person")
        /\ has(sigs, "wrong_person") => ~decision.result.okToAutoRespond

\* C23, amended: in every decision that no hard stop short-circuits, each of
\* wants_resume_first, wants_call_first and skeptical has its blocking
\* reason if and only if the message is not an explicit agreement request,
\* and wrong_person has its blocking reason in every such decision; a
\* hard-stopped decision carries none of the four reasons; and a decision
\* with wrong_person never has okToAutoRespond = true.
C23_SoftIntents ==
  decision.made =>
    LET sigs == decision.result.normalizedSignals
        reasons == decision.result.blockingReasons
        four == {"wants_resume_first", "wants_call_first", "skeptical",
                 "wrong_person"}
    IN  /\ ~DecisionShortCircuited =>
             /\ \A s \in four \ {"wrong_person"} :
                  SeqHas(reasons, s) <=> (has(sigs, s) /\ ~DecisionAsksForAgreement)
             /\ SeqHas(reasons, "wrong_person") <=> has(sigs, "wrong_person")
        /\ DecisionShortCircuited => \A s \in four : ~SeqHas(reasons, s)
        /\ has(sigs, "wrong_person") => ~decision.result.okToAutoRespond

\* "Send the agreement, but this is the wrong person" under ASK_AGREEMENT
\* with a score that clears the threshold: wrong_person is the only reason.
C23_Witness ==
  /\ decision.made
  /\ decision.input.template_id = "ASK_AGREEMENT"
  /\ decision.result.normalizedSignals = {"send_agreement", "wrong_person"}
  /\ decision.result.confidence >= AgreementThreshold
  /\ decision.result.blockingReasons = <<"wrong_person">>
  /\ ~decision.result.okToAutoRespond

\* C24: a decision is blocked, whatever its score, under YES_SEND without
\* send_agreement, asks_for_agreement, send_it and explicit_yes, under
\* ASK_AGREEMENT without asks_for_agreement, send_agreement and send_it, and
\* under ASK_FEES_ONLY without asks_fees; under INTERESTED multi_topic
\* blocks, and without multi_topic the decision passes exactly when no
\* thread or signal blocker applies and the score reaches the threshold.
C24_TemplateRules ==
  decision.made =>
    LET i == decision.input
        t == i.template_id
        sigs == decision.result.normalizedSignals
        ok == decision.result.okToAutoRespond
    IN  /\ (t = "YES_SEND"
              /\ sigs \cap {"send_agreement", "asks_for_agreement", "send_it",
                            "explicit_yes"} = {}) => ~ok
        /\ (t = "ASK_AGREEMENT"
              /\ sigs \cap {"asks_for_agreement", "send_agreement", "send_it"} = {})
             => ~ok
        /\ (t = "ASK_FEES_ONLY" /\ ~has(sigs, "asks_fees")) => ~ok
        /\ (t = "INTERESTED" /\ has(sigs, "multi_topic")) => ~ok
        /\ (t = "INTERESTED" /\ ~has(sigs, "multi_topic") /\ ~DecisionShortCircuited)
             => (ok <=> /\ softBlockers(t, sigs, i.threadState, i.messageId) = <<>>
                        /\ decision.result.confidence
                             >= decisionThreshold(t, sigs, i.confidenceThreshold))

\* ASK_FEES_ONLY on "yes" without a fees question: the score clears the
\* threshold and the template rule is the only reason.
C24_Witness ==
  /\ decision.made
  /\ decision.input.template_id = "ASK_FEES_ONLY"
  /\ ~has(decision.result.normalizedSignals, "asks_fees")
  /\ decision.result.confidence
       >= decisionThreshold("ASK_FEES_ONLY", decision.result.normalizedSignals,
                            decision.input.confidenceThreshold)
  /\ decision.result.blockingReasons = <<"ASK_FEES_ONLY requires asks_fees">>

\* ------------------------------------------------------------------------
\* Properties of the handlers (checked under Spec or SpecSeq)
\* ------------------------------------------------------------------------
\* C2: with deliveries handled one at a time, a delivery that arrives on a
\* thread whose agreementSent is set never reaches the call that sends a
\* reply, an agreement or a follow-up email, and returns having sent none.
C2_NoSendAfterAgreement ==
  /\ \A i \in Slots :
       (handlers[i] # Idle /\ handlers[i].agreedAtStart)
         => handlers[i].pc \notin {"sendReply", "sendAgreement", "followUp"}
  /\ (lastDone # NoDone /\ lastDone.agreedAtStart)
       => (~lastDone.replySent /\ ~lastDone.agreementSent)

\* After an agreement went out on the thread, a later delivery classified
\* YES_SEND with an explicit yes is held for manual review.
C2_Witness ==
  /\ history.agreements["t1"] = 1
  /\ \E i \in Slots :
       /\ handlers[i] # Idle
       /\ handlers[i].agreedAtStart
       /\ handlers[i].pc = "alert"
       /\ handlers[i].template_id = "YES_SEND"
       /\ has(handlers[i].sigs, "explicit_yes")

\* C3: for every interleaving of the deliveries on a thread, at most one
\* agreement send succeeds for the thread.
C3_AtMostOneAgreement == \A t \in ThreadKeys : history.agreements[t] <= 1

\* C4: with deliveries handled one at a time, the deliveries that carry one
\* message id cause together at most one increment of autoRepliesSent and at
\* most one successful agreement send, and a delivery whose id is marked
\* processed and differs from its thread id returns at once, sends nothing
\* and changes no state.
C4_IdempotentReplay ==
  [][/\ \A m \in MessageIds : /\ history'.incrementsBy[m] <= 1
                              /\ history'.agreementsBy[m] <= 1
     /\ \A i \in Slots :
          (handlers[i] = Idle /\ handlers'[i] # Idle)
            => ~(/\ isProcessed(store, handlers'[i].message_id)
                 /\ handlers'[i].message_id # handlers'[i].thread)
     /\ (/\ history'.arrived = history.arrived + 1
         /\ lastDone' # NoDone
         /\ isProcessed(store, lastDone'.message_id)
         /\ lastDone'.message_id # lastDone'.thread)
          => /\ store' = store
             /\ history' = [history EXCEPT !.arrived = @ + 1, !.responses = @ + 1]
             /\ ~lastDone'.replySent
             /\ ~lastDone'.agreementSent]_vars

\* A redelivery of a message that was answered and marked processed is
\* turned away as a duplicate.
C4_Witness ==
  /\ lastDone # NoDone
  /\ lastDone.exit = "duplicate"
  /\ lastDone.message_id # lastDone.thread
  /\ history.incrementsBy[lastDone.message_id] = 1

\* C5: a delivery that arrives while another delivery with the same message
\* id is in flight sends no reply and no agreement and does not increment
\* autoRepliesSent.
C5_InFlightDuplicateSendsNothing ==
  /\ \A i \in Slots :
       (handlers[i] # Idle /\ handlers[i].dupInFlight)
         => (~handlers[i].replySent /\ ~handlers[i].agreementSent)
  /\ (lastDone # NoDone /\ lastDone.dupInFlight)
       => (~lastDone.replySent /\ ~lastDone.agreementSent)

\* C6: in every step autoRepliesSent of a thread stays or grows by one; it
\* grows exactly in the step in which a reply of the thread is transmitted
\* successfully, so that it always equals the number of transmitted replies;
\* a delivery that returns without having transmitted its reply (a hard
\* stop, a blocked decision, a failed send) returns with the counter as it
\* found it.
C6_AutoRepliesCounter ==
  [][\A t \in ThreadKeys :
       LET transmitted ==
             \E i \in Slots :
               /\ handlers[i] # Idle
               /\ handlers[i].pc = "sendReply"
               /\ handlers[i].thread = t
               /\ \/ handlers'[i] # Idle /\ handlers'[i].replySent
                  \/ handlers'[i] = Idle /\ lastDone' # NoDone /\ lastDone'.replySent
       IN  /\ store'.autoRepliesSent[t] =
                store.autoRepliesSent[t] + (IF transmitted THEN 1 ELSE 0)
           /\ store'.autoRepliesSent[t] = history'.replies[t]
           /\ (lastDone' # NoDone /\ ~lastDone'.replySent)
                => store'.autoRepliesSent[t] = store.autoRepliesSent[t]]_vars

\* One reply was transmitted on the thread and counted, and a delivery whose
\* send failed has just returned.
C6_Witness ==
  /\ store.autoRepliesSent["t1"] = 1
  /\ history.replies["t1"] = 1
  /\ lastDone # NoDone
  /\ lastDone.exit = "replyFailed"

\* C14: with deliveries handled one at a time, no two consecutive
\* transmitted replies on a thread carry the same template id: a step that
\* transmits a reply on a thread transmits a template other than the one of
\* the reply transmitted before it.
C14_NoBackToBackTemplate ==
  [][\A t \in ThreadKeys :
       history'.replies[t] > history.replies[t]
         => history'.lastReply[t] # history.lastReply[t]]_vars

\* C18: agreementSent of a thread and the unsubscribed flag of an address
\* never change from true back to false, in any step of any interleaving.
C18_FlagsSetOnce ==
  [][/\ \A t \in ThreadKeys : store.agreementSent[t] => store'.agreementSent[t]
     /\ store.unsubscribedLeads \subseteq store'.unsubscribedLeads]_vars

\* A delivery has returned on a thread whose agreement was out when it
\* arrived, the address is unsubscribed, and both flags are still set.
C18_Witness ==
  /\ lastDone # NoDone
  /\ lastDone.agreedAtStart
  /\ store.agreementSent["t1"]
  /\ "a@x.com" \in store.unsubscribedLeads

\* C19: the locked roles of a thread only grow: every role locked before a
\* step is locked after it.
C19_LockedRolesGrow ==
  [][\A t \in ThreadKeys :
       \A k \in 1..Len(store.lockedRoles[t]) :
         SeqHas(store'.lockedRoles[t], store.lockedRoles[t][k])]_vars

\* Two deliveries have each locked a role and both roles are kept.
C19_Witness ==
  /\ store.lockedRoles["t1"] = <<"nurse", "recruiter">>
  /\ lastDone # NoDone

\* C20: a delivery whose reply under YES_SEND or ASK_AGREEMENT has been
\* transmitted and whose normalized signals contain already_signed returns
\* without dispatching an agreement, and agreementSent of its thread is
\* true at that return, whatever its other signals.
C20_AlreadySignedMarksSent ==
  [][\A i \in Slots :
       (/\ handlers[i].pc = "sendReply"
        /\ handlers[i].template_id \in AUTO_SEND_TEMPLATES
        /\ has(handlers[i].sigs, "already_signed")
        /\ history'.incrementsBy[handlers[i].message_id]
             > history.incrementsBy[handlers[i].message_id])
         => /\ handlers'[i] = Idle
            /\ history'.agreements = history.agreements
            /\ store'.agreementSent[handlers[i].thread]]_vars

\* C13: under any interleaving of deliveries on one thread, once two
\* automated replies have been transmitted on the thread, every further
\* reply transmitted on it carries a template of the depth whitelist.
C13_DepthLimitUnderInterleaving ==
  [][\A t \in ThreadKeys :
       (/\ history'.replies[t] > history.replies[t]
        /\ history.replies[t] >= DepthLimit)
         => history'.lastReply[t] \in DEPTH_WHITELIST]_vars

\* C25: addLockedRole is add-if-absent under case and whitespace
\* normalization: no two locked roles of a thread are equal up to letter
\* case and surrounding whitespace, and no locked role is empty or blank.
C25_AddIfAbsentNormalized ==
  LET lower(role) ==
        CASE role \in {"nurse", "Nurse", "NURSE", "nurse "} -> "nurse"
          [] role \in {"recruiter", "Recruiter"} -> "recruiter"
          [] role = " " -> ""
          [] OTHER -> role
  IN  \A t \in ThreadKeys :
        LET roles == store.lockedRoles[t]
        IN  /\ \A j, k \in 1..Len(roles) :
                 j # k => lower(roles[j]) # lower(roles[k])
            /\ \A k \in 1..Len(roles) : lower(roles[k]) # ""

\* C21: under any interleaving, a delivery whose agreement step finds
\* agreementSent of its thread already true does not dispatch an agreement:
\* when its transmitted reply returns and the flag is set, it does not go on
\* to the call of sendAgreement, whatever its signals.
C21_NoDispatchWhenAlreadySent ==
  [][\A i \in Slots :
       (/\ handlers[i].pc = "sendReply"
        /\ handlers[i].template_id \in AUTO_SEND_TEMPLATES
        /\ history'.incrementsBy[handlers[i].message_id]
             > history.incrementsBy[handlers[i].message_id]
        /\ store.agreementSent[handlers[i].thread])
         => handlers'[i].pc # "sendAgreement"]_vars

\* C22 as stated: a delivery with a lead_email that ends in the unsubscribe
\* hard stop leaves that address marked Do-Not-Contact, and every delivery
\* that starts afterwards with a lead_email equal to it up to letter case
\* and surrounding whitespace returns at once, without classification, reply
\* or agreement, and its message is marked processed.
C22_DoNotContact ==
  [][LET lower(email) == IF email \in {"a@x.com", " A@X.com "} THEN "a@x.com"
                         ELSE email
     IN  /\ (lastDone' # NoDone /\ lastDone'.exit = "UNSUBSCRIBE"
               /\ lastDone'.lead_email # NoEmail)
              => lower(lastDone'.lead_email) \in store'.unsubscribedLeads
         /\ \A i \in Slots :
              (/\ handlers[i] = Idle
               /\ handlers'[i] # Idle
               /\ \E e \in history.optedOut :
                    lower(e) = lower(handlers'[i].lead_email))
                => FALSE
         /\ (/\ history'.arrived > history.arrived
             /\ lastDone' # NoDone
             /\ \E e \in history.optedOut : lower(e) = lower(lastDone'.lead_email))
              => /\ lastDone'.message_id \in store'.processedMessages
                 /\ history'.replies = history.replies
                 /\ history'.agreements = history.agreements]_vars

\* C22, amended: a delivery with a lead_email that ends in the unsubscribe
\* hard stop leaves that address marked Do-Not-Contact, and every delivery
\* that starts afterwards with a lead_email equal to it up to letter case
\* and surrounding whitespace returns at once, without classification, reply
\* or agreement; unless it is ignored for its event type or rejected for a
\* missing message id, its message is marked processed.
C22_DoNotContactReplies ==
  [][LET lower(email) == IF email \in {"a@x.com", " A@X.com "} THEN "a@x.com"
                         ELSE email
     IN  /\ (lastDone' # NoDone /\ lastDone'.exit = "UNSUBSCRIBE"
               /\ lastDone'.lead_email # NoEmail)
              => lower(lastDone'.lead_email) \in store'.unsubscribedLeads
         /\ \A i \in Slots :
              (/\ handlers[i] = Idle
               /\ handlers'[i] # Idle
               /\ \E e \in history.optedOut :
                    lower(e) = lower(handlers'[i].lead_email))
                => FALSE
         /\ (/\ history'.arrived > history.arrived
             /\ lastDone' # NoDone
             /\ \E e \in history.optedOut : lower(e) = lower(lastDone'.lead_email))
              => /\ lastDone'.exit \in {"ignored", "missingMessageId", "duplicate",
                                        "unsubscribed"}
                 /\ lastDone'.exit \notin {"ignored", "missingMessageId"}
                      => lastDone'.message_id \in store'.processedMessages
                 /\ history'.replies = history.replies
                 /\ history'.agreements = history.agreements]_vars

\* The first delivery was classified and ended in the unsubscribe hard stop
\* for a@x.com; the second, from " A@X.com ", has returned at the
\* Do-Not-Contact check and is marked processed.
C22_Witness ==
  /\ history.arrived = 2
  /\ lastDone # NoDone
  /\ lastDone.exit = "unsubscribed"
  /\ lastDone.lead_email = " A@X.com "
  /\ history.optedOut = {"a@x.com"}
  /\ store.unsubscribedLeads = {"a@x.com"}
  /\ store.processedMessages = {"m1", "m2"}

C27_ManualOwnerBlocks ==
  [][\A i \in Slots :
       /\ (/\ handlers[i].pc = "classify"
           /\ handlers'[i] # handlers[i]
           /\ store.manualOwner[handlers[i].thread])
            => /\ handlers'[i] = Idle \/ handlers'[i].pc = "alert"
               /\ handlers'[i] = Idle =>
                    ~lastDone'.replySent /\ ~lastDone'.agreementSent
       /\ (handlers[i].pc = "alert" /\ handlers'[i] # handlers[i])
            => /\ handlers'[i] = Idle
               /\ ~lastDone'.replySent /\ ~lastDone'.agreementSent
               /\ history'.replies = history.replies
               /\ history'.agreements = history.agreements
       /\ (/\ handlers[i] # Idle
           /\ handlers'[i] # handlers[i]
           /\ \/ lastDone'.status # 0 /\ lastDone'.exit = "manualReplyDetected"
              \/ ~store.manualOwner[handlers[i].thread]
                   /\ store'.manualOwner[handlers[i].thread])
            => /\ handlers[i].pc = "fetch"
               /\ handlers'[i] = Idle
               /\ lastDone'.exit = "manualReplyDetected"
               /\ store'.manualOwner[handlers[i].thread]
               /\ handlers[i].message_id \in store'.processedMessages
               /\ ~lastDone'.replySent /\ ~lastDone'.agreementSent
               /\ history'.replies = history.replies
               /\ history'.agreements = history.agreements]_vars

\* A delivery on a manually owned thread waits for the manual-review alert
\* although its decision would pass without the flag.
C27_Witness ==
  \E i \in Slots :
    /\ handlers[i].pc = "alert"
    /\ store.manualOwner[handlers[i].thread]
    /\ decideAutoRespond(
         [template_id |-> handlers[i].template_id,
          modelSignals |-> handlers[i].sigs, body |-> handlers[i].body,
          threadState |->
            [buildThreadState(store, handlers[i].thread, {})
               EXCEPT !.manualOwner = FALSE],
          messageId |-> handlers[i].message_id,
          confidenceThreshold |-> HandlerThreshold]).okToAutoRespond

\* C28: manualOwner of a thread changes from true to false only in the
\* step of a delivery that returns from fetchThread and finds a campaign
\* email or an email older than the bot-marker rollout as our last message
\* (the branch that counts the reset); no other step of any delivery, and no
\* delivery whose fetch fails, resets it.
C28_ManualOwnerReset ==
  [][\A t \in ThreadKeys :
       (store.manualOwner[t] /\ ~store'.manualOwner[t])
         => /\ history'.ownerResets[t] = history.ownerResets[t] + 1
            /\ \E i \in Slots :
                 /\ handlers[i] # Idle
                 /\ handlers[i].pc = "fetch"
                 /\ handlers[i].thread = t
                 /\ handlers'[i] # handlers[i]]_vars

\* The manual-owner flag of t1 was set by one delivery and reset by a later
\* one.
C28_Witness ==
  /\ history.ownerResets["t1"] = 1
  /\ ~store.manualOwner["t1"]
  /\ lastDone # NoDone

\* C29: the last-sender address of a thread is overwritten by every inbound
\* message that is classified as coming from a human, and is left unchanged
\* by every delivery that ends as an out-of-office or blank auto-reply,
\* whether the handler's early checks recognise it or the decision's hard
\* stop does after classification.
C29_LastFromOnlyFromHumans ==
  [][LET lower(email) == IF email \in {"a@x.com", " A@X.com "} THEN "a@x.com"
                         ELSE email
         autoReplyExits == {"blank", "outOfOffice", "OUT_OF_OFFICE",
                            "AUTO_REPLY_BLANK"}
     IN  \A i \in Slots :
           (handlers[i] # Idle /\ handlers'[i] # handlers[i])
             => LET l == handlers[i]
                    senderEmail == IF l.threadFrom # NoEmail THEN l.threadFrom
                                   ELSE l.lead_email
                    returned == handlers'[i] = Idle
                IN  /\ (returned /\ lastDone'.exit \in autoReplyExits)
                         => store'.lastFrom[l.thread] = store.lastFrom[l.thread]
                    /\ (/\ l.pc = "classify"
                        /\ ~(returned /\ lastDone'.exit \in
                               autoReplyExits \cup {"classificationFailed"})
                        /\ senderEmail # NoEmail)
                         => store'.lastFrom[l.thread] = lower(senderEmail)]_vars

\* C30: a delivery whose reply send fails answers with an error, dispatches
\* no agreement and leaves autoRepliesSent, agreementSent, lastTemplateId
\* and the processed messages as they were, its own message not among them,
\* so that a retry is not skipped; a delivery whose reply send succeeds
\* increments autoRepliesSent in that step, and has marked its message
\* processed when it returns.
C30_CommitAfterSend ==
  [][\A i \in Slots :
       (handlers[i] # Idle /\ handlers'[i] # handlers[i])
         => LET l == handlers[i]
                returned == handlers'[i] = Idle
            IN  /\ (l.pc = "sendReply" /\ returned /\ lastDone'.replyFailed)
                     => /\ lastDone'.status = 500
                        /\ ~lastDone'.agreementSent
                        /\ history'.agreements = history.agreements
                        /\ store'.autoRepliesSent = store.autoRepliesSent
                        /\ store'.agreementSent = store.agreementSent
                        /\ store'.lastTemplateIds = store.lastTemplateIds
                        /\ store'.processedMessages = store.processedMessages
                        /\ l.message_id \notin store'.processedMessages
                /\ (l.pc = "sendReply" /\ ~(returned /\ lastDone'.replyFailed))
                     => store'.autoRepliesSent[l.thread]
                          = store.autoRepliesSent[l.thread] + 1
                /\ (returned /\ lastDone'.replySent)
                     => /\ l.message_id \in store'.processedMessages
                        /\ store'.autoRepliesSent[l.thread] >= 1]_vars

\* The reply send of m1 has failed: the handler answered 500 and m1 is not
\* marked processed.
C30_Witness ==
  /\ lastDone # NoDone
  /\ lastDone.replyFailed
  /\ lastDone.status = 500
  /\ lastDone.message_id = "m1"
  /\ "m1" \notin store.processedMessages
  /\ store.autoRepliesSent["t1"] = history.replies["t1"]

\* C31: the agreementSent flag of a thread is true exactly when an agreement
\* send has succeeded for the thread or a delivery took the already-signed
\* skip: it becomes true in the step of such a send or skip and in no other
\* step, it is true after each of them, and it stays true; a failed
\* agreement send leaves the flag as it was (false on a thread without an
\* agreement), and the delivery still returns 200 with its message marked
\* processed.
C31_AgreementSentExact ==
  [][/\ \A t \in ThreadKeys :
          LET sendSucceeded == history'.agreements[t] = history.agreements[t] + 1
              skipTaken == /\ lastDone' # NoDone
                           /\ lastDone'.exit = "alreadySigned"
                           /\ lastDone'.thread = t
          IN  /\ store.agreementSent[t] => store'.agreementSent[t]
              /\ (~store.agreementSent[t] /\ store'.agreementSent[t])
                   => (sendSucceeded \/ skipTaken)
              /\ (sendSucceeded \/ skipTaken) => store'.agreementSent[t]
              /\ history'.agreements[t] \in {history.agreements[t],
                                             history.agreements[t] + 1}
     /\ \A i \in Slots :
          (handlers[i].pc = "sendAgreement" /\ handlers'[i] = Idle)
            => /\ store'.agreementSent = store.agreementSent
               /\ lastDone'.agreementFailed
               /\ ~lastDone'.agreementSent
               /\ lastDone'.status = 200
               /\ isProcessed(store', lastDone'.message_id)]_vars

\* A delivery whose agreement send failed on a thread without an agreement:
\* it returned 200, its message is processed and the flag is still false.
C31_Witness ==
  /\ lastDone # NoDone
  /\ lastDone.agreementFailed
  /\ lastDone.status = 200
  /\ isProcessed(store, lastDone.message_id)
  /\ ~store.agreementSent[lastDone.thread]
  /\ history.agreements[lastDone.thread] = 0

\* C32: a handler that dispatches an agreement (it has called sendAgreement)
\* holds a final template YES_SEND or ASK_AGREEMENT and a decision with
\* okToAutoRespond = true, and its reply send has succeeded; a delivery that
\* ended in a hard stop, a blocked decision, an early return before
\* classification or a failed reply send has dispatched no agreement.
C32_AgreementDispatchedOnlyAfterReply ==
  /\ \A i \in Slots :
       handlers[i].pc \in {"sendAgreement", "agreementAlert", "followUp"}
         => /\ handlers[i].template_id \in {"YES_SEND", "ASK_AGREEMENT"}
            /\ handlers[i].okToAutoRespond
            /\ handlers[i].replySent
  /\ lastDone # NoDone =>
       /\ (lastDone.agreementSent \/ lastDone.agreementFailed)
            => /\ lastDone.template_id \in {"YES_SEND", "ASK_AGREEMENT"}
               /\ lastDone.okToAutoRespond
               /\ lastDone.replySent
               /\ lastDone.exit = "success"
       /\ lastDone.exit \in {"ignored", "missingMessageId", "duplicate", "unsubscribed",
                             "subjectStop", "blank", "outOfOffice",
                             "wrongPersonSameEmail", "manualReplyDetected",
                             "classificationFailed", "UNSUBSCRIBE", "OUT_OF_OFFICE",
                             "AUTO_REPLY_BLANK", "DONE_ALL_SET", "manualReview",
                             "wrongPersonNoContact", "scriptFailed", "replyFailed"}
            => (~lastDone.agreementSent /\ ~lastDone.agreementFailed)
  /\ \A m \in MessageIds :
       history.agreementsBy[m] > 0 => history.incrementsBy[m] > 0

\* An agreement is being dispatched after the reply of the delivery went out.
C32_Witness ==
  \E i \in Slots :
    /\ handlers[i].pc = "sendAgreement"
    /\ handlers[i].template_id = "ASK_AGREEMENT"
    /\ handlers[i].replySent
    /\ handlers[i].okToAutoRespond

\* C33: a reply is transmitted in a delivery only if the last decision
\* computed for the delivery has okToAutoRespond = true; a re-run decision
\* that blocks ROLE_CONFIRMED_FOLLOWUP stops the reply.
C33_LastDecisionRespected ==
  (lastDone # NoDone /\ lastDone.replySent) => lastDone.okToAutoRespond

\* C34: every decision with okToAutoRespond = false carries at least one
\* blocking reason, also when a score below the threshold is its only cause.
C34_BlockedDecisionHasReason ==
  (decision.made /\ ~decision.result.okToAutoRespond)
    => Len(decision.result.blockingReasons) >= 1

\* C35: a delivery whose message id equals its effective thread id and is
\* already processed passes the duplicate check and is processed as a new
\* reply: when its decision is handed to manual review, the reason is not
\* that the message id was already processed.
C35_ReusedThreadIdProcessedAsNew ==
  \A i \in Slots :
    (/\ handlers[i].pc = "alert"
     /\ handlers[i].message_id = handlers[i].thread
     /\ isProcessed(store, handlers[i].message_id))
      => ~SeqHas(handlers[i].blockingReasons, "duplicateMessageId")

\* C36: when a delivery that transmitted a reply returns, the lastTemplateId
\* of its thread is the template of that reply, on every exit path; the
\* return of a delivery that sent no reply leaves lastTemplateId as it was.
C36_LastTemplateIsLastReply ==
  [][lastDone' # NoDone =>
       IF lastDone'.replySent
         THEN getLastTemplateId(store', lastDone'.thread) = lastDone'.template_id
         ELSE store'.lastTemplateIds = store.lastTemplateIds]_vars

\* C37: at the moment a handler hands a reply to sendEmail or an agreement
\* to sendAgreement, the recipient is not marked Do-Not-Contact, whether it
\* is lead_email or the thread's latest sender, and also when the address
\* was marked while the delivery was in flight.
C37_NoSendToDoNotContact ==
  [][\A i \in Slots :
       /\ (handlers[i].pc # "sendReply" /\ handlers'[i].pc = "sendReply")
            => ~isUnsubscribed(store', replyRecipient(handlers'[i]))
       /\ (handlers[i].pc # "sendAgreement" /\ handlers'[i].pc = "sendAgreement")
            => ~isUnsubscribed(store', agreementRecipient(store', handlers'[i]))]_vars

\* C38: a delivery that transmitted a YES_SEND or ASK_AGREEMENT reply has
\* had an agreement send succeed by the time it returns: no such reply goes
\* out in a delivery whose agreement is skipped or whose agreement send
\* fails.
C38_AgreementFollowsAgreementReply ==
  (/\ lastDone # NoDone
   /\ lastDone.replySent
   /\ lastDone.template_id \in {"YES_SEND", "ASK_AGREEMENT"})
    => lastDone.agreementSent

\* C39: the response of a delivery reports agreement_sent = true only if an
\* agreement send succeeded in the delivery, and reply_sent = true only if
\* the reply send succeeded.
C39_ResponseReportsActualSends ==
  lastDone # NoDone =>
    /\ lastDone.json.agreement_sent => lastDone.agreementSent
    /\ lastDone.json.reply_sent => lastDone.replySent

\* C40: every delivery terminates, whatever the outcome of each external
\* call: a handler that is in flight eventually returns; every delivery that
\* has arrived is in flight or has issued exactly one response; and a
\* delivery that returns 200 at or after the duplicate check has its message
\* id marked processed.
C40_TerminatesWithOneResponse ==
  /\ [](/\ history.arrived
             = history.responses + Cardinality({i \in Slots : handlers[i] # Idle})
        /\ (/\ lastDone # NoDone
            /\ lastDone.status = 200
            /\ lastDone.exit # "ignored")
             => isProcessed(store, lastDone.message_id))
  /\ \A i \in Slots : (handlers[i] # Idle) ~> (handlers[i] = Idle)

\* All deliveries have been answered, the last one after its agreement went
\* out (every external call of the handler was made).
C40_Witness ==
  /\ history.arrived = MaxDeliveries
  /\ history.responses = MaxDeliveries
  /\ lastDone # NoDone
  /\ lastDone.status = 200
  /\ lastDone.agreementSent
  /\ isProcessed(store, lastDone.message_id)

====
